---- MODULE Spec2Model ----
(***************************************************************************)
(* Model of the blog REST backend: the relational store (users, posts,     *)
(* comments, likes with their keys and ON DELETE CASCADE foreign keys),    *)
(* the comment, like and delete handlers as one step per awaited store     *)
(* statement, and the pagination arithmetic of the list endpoints.         *)
(***************************************************************************)
EXTENDS Integers, Sequences, FiniteSets, TLC

VARIABLES users, posts, comments, likes, nextCommentId, nextLikeId, nextPostId,
          nextUserId, reqs, query, pagination, listed, hist

vars == <<users, posts, comments, likes, nextCommentId, nextLikeId, nextPostId,
          nextUserId, reqs, query, pagination, listed, hist>>

storeVars == <<users, posts, comments, likes, nextCommentId, nextLikeId, nextPostId,
               nextUserId>>
pageVars == <<query, pagination, listed>>

----------------------------------------------------------------------------
(* Bounds *)

\* number of comment rows the store ever allocates (AUTO_INCREMENT ids 1..MaxComments)
MaxComments == 3

\* number of like rows the store ever allocates
MaxLikes == 3

\* longest page / limit query string
MaxLen == 2

\* largest number of rows matching a list query
MaxTotal == 25

\* number of fetches of one post
MaxViews == 3

\* number of post rows the store ever allocates (AUTO_INCREMENT ids 1..MaxPosts)
MaxPosts == 4

\* number of user rows the store ever allocates
MaxUsers == 4

----------------------------------------------------------------------------
(* The relational store: schema of config/database.js *)

\* parent_id INT DEFAULT NULL; AUTO_INCREMENT ids start at 1, so 0 stands for NULL
NULL == 0

\* column = ? in a WHERE clause: never true of a column that is NULL, whatever
\* the value compared with
Eq(column, v) == column # NULL /\ column = v

Procs == {1, 2}

\* a body field that was not sent is <<>>, a field sent with value v is <<v>>
Undefined == << >>

Given(v) == <<v>>

\* JavaScript truthiness of a numeric body field: undefined and 0 are falsy
Truthy(f) == f # Undefined /\ f[1] # 0

IdleReq ==
  [op |-> "idle", pc |-> "idle", uid |-> 0, role |-> "", content |-> "",
   post_id |-> 0, parent_id |-> Undefined, id |-> 0, post_status |-> "",
   username |-> << >>, email |-> << >>,
   status |-> 0, message |-> "", liked |-> ""]

UserIdsOf(us) == {u.id : u \in us}

PostIdsOf(ps) == {p.id : p \in ps}

CommentIdsOf(cs) == {c.id : c \in cs}

\* FOREIGN KEY (parent_id) REFERENCES comments(id) ON DELETE CASCADE:
\* the ids removed once the rows in ids are deleted, children transitively
RECURSIVE CascadeParent(_, _)
CascadeParent(cs, ids) ==
  LET more == ids \cup {c.id : c \in {d \in cs : \E id \in ids : Eq(d.parent_id, id)}}
  IN IF more = ids THEN ids ELSE CascadeParent(cs, more)

\* mutant: the parent_id foreign key does not cascade
DeleteCommentRows_NoCascade(cs, ids) == {c \in cs : c.id \notin ids}

\* rows of comments left after the rows with id in ids are deleted
DeleteCommentRows(cs, ids) ==
  {c \in cs : c.id \notin CascadeParent(cs, ids)}

\* mutant: only the addressed row is deleted, its replies stay
DeleteCommentStmt_TargetOnly(cs, commentId) == {c \in cs : c.id # commentId}

\* DELETE FROM comments WHERE id = ? OR parent_id = ?
DeleteCommentStmt(cs, commentId) ==
  DeleteCommentRows(cs, {c.id : c \in {d \in cs : d.id = commentId \/ Eq(d.parent_id, commentId)}})

\* the foreign keys of a comments row are satisfied
CommentFKsHold(ps, us, cs, row) ==
  /\ row.post_id \in PostIdsOf(ps)
  /\ row.user_id \in UserIdsOf(us)
  /\ row.parent_id = NULL \/ row.parent_id \in CommentIdsOf(cs)

\* mutant: the likes table has no UNIQUE KEY unique_like
LikeKeysHold_NoUnique(ps, us, ls, row) ==
  row.post_id \in PostIdsOf(ps) /\ row.user_id \in UserIdsOf(us)

\* mutant: the likes table has no foreign key to posts
LikeKeysHold_NoPostKey(ps, us, ls, row) ==
  /\ row.user_id \in UserIdsOf(us)
  /\ \A l \in ls : ~(l.user_id = row.user_id /\ l.post_id = row.post_id)

\* the foreign keys and the unique key of a likes row are satisfied
LikeKeysHold(ps, us, ls, row) ==
  /\ row.post_id \in PostIdsOf(ps)
  /\ row.user_id \in UserIdsOf(us)
  /\ \A l \in ls : ~(l.user_id = row.user_id /\ l.post_id = row.post_id)

\* the row of INSERT INTO posts (..., author_id, status): views and likes take
\* their default 0
NewPost(id, author, status) ==
  [id |-> id, author_id |-> author, status |-> status, views |-> 0, likes |-> 0]

\* FOREIGN KEY (author_id) REFERENCES users(id)
PostFKsHold(us, row) == row.author_id \in UserIdsOf(us)

\* the row of INSERT INTO users (username, email, password, full_name): role
\* takes its default 'user'
NewUser(id, username, email) ==
  [id |-> id, role |-> "user", username |-> username, email |-> email]

\* username VARCHAR(50) UNIQUE, email VARCHAR(100) UNIQUE
UserKeysHold(us, row) ==
  \A u \in us : u.username # row.username /\ u.email # row.email

\* DELETE FROM posts WHERE id = ?, seen from the posts table
DeletePostRows(ps, postIds) == {p \in ps : p.id \notin postIds}

\* mutant: the replies to the removed comments stay
CascadeComments_RowsOnly(cs, postIds, userIds) ==
  {c \in cs : c.post_id \notin postIds /\ c.user_id \notin userIds}

\* comments left after the posts in postIds and the users in userIds are deleted
CascadeComments(cs, postIds, userIds) ==
  DeleteCommentRows(cs, {c.id : c \in {d \in cs : d.post_id \in postIds \/ d.user_id \in userIds}})

\* mutant: the likes of a deleted post stay
CascadeLikes_UsersOnly(ls, postIds, userIds) == {l \in ls : l.user_id \notin userIds}

\* likes left after the posts in postIds and the users in userIds are deleted
CascadeLikes(ls, postIds, userIds) ==
  {l \in ls : l.post_id \notin postIds /\ l.user_id \notin userIds}

----------------------------------------------------------------------------
(* Requests *)

Respond(r, status, message) ==
  [r EXCEPT !.pc = "done", !.status = status, !.message = message]

Free(p) == reqs[p].pc \in {"idle", "done"}

\* middleware/auth: the token names a user id, req.user is that user's row
auth(u) == u \in users

\* the request of user u as the handler of op receives it
NewReq(u, op) == [IdleReq EXCEPT !.op = op, !.uid = u.id, !.role = u.role]

\* mutant: the validator accepts every value
notEmpty_Anything(v) == TRUE

\* body(field).notEmpty(): a field that was not sent is validated as the empty string
notEmpty(v) == v # ""

\* body('status').isIn(['draft', 'published'])
isIn(v, allowed) == v \in allowed

PostStatuses == {"draft", "published"}

\* body(field).isLength({ min }): v is the sequence of the field's characters
isLength(v, min) == Len(v) >= min

\* body(field).isEmail(): one @, a local part before it, and after it a domain
\* that ends in a dot and a top-level name of two characters or more
isEmail(v) ==
  \E i \in 2..Len(v) :
    /\ v[i] = "@" /\ \A j \in 1..Len(v) : v[j] = "@" => j = i
    /\ \E k \in (i + 2)..(Len(v) - 2) :
         /\ v[k] = "."
         /\ \A j \in (k + 1)..Len(v) : v[j] # "."

\* create-comment requests that have not yet inserted their row
PendingInserts ==
  Cardinality({p \in Procs : reqs[p].op = "createComment" /\
                             reqs[p].pc \in {"selectPost", "selectParent", "insert"}})

----------------------------------------------------------------------------
(* routes/comments.js *)

\* body('content').notEmpty(), then the request waits for its first query
CreateCommentBegin(p, u, content, post_id, parent_id) ==
  /\ Free(p) /\ auth(u)
  /\ nextCommentId + PendingInserts <= MaxComments
  /\ reqs' = [reqs EXCEPT ![p] =
       LET r == [NewReq(u, "createComment") EXCEPT !.content = content, !.post_id = post_id,
                                                  !.parent_id = parent_id]
       IN IF ~notEmpty(content) THEN Respond(r, 400, "errors")
          ELSE [r EXCEPT !.pc = "selectPost"]]
  /\ UNCHANGED <<storeVars, pageVars>>

\* SELECT * FROM posts WHERE id = ? AND status = "published"
PublishedPosts(ps, post_id) == {q \in ps : q.id = post_id /\ q.status = "published"}

\* Verify post exists
CreateCommentSelectPost(p) ==
  LET r == reqs[p] IN
  /\ r.op = "createComment" /\ r.pc = "selectPost"
  /\ reqs' = [reqs EXCEPT ![p] =
       IF PublishedPosts(posts, r.post_id) = {} THEN Respond(r, 404, "Post not found")
       ELSE IF Truthy(r.parent_id) THEN [r EXCEPT !.pc = "selectParent"]
       ELSE [r EXCEPT !.pc = "insert"]]
  /\ UNCHANGED <<storeVars, pageVars>>

\* mutant: the parent is looked up on any post
ParentComments_AnyPost(cs, parent_id, post_id) == {c \in cs : c.id = parent_id}

\* mutant: only a comment without a parent is accepted as a parent
ParentComments_TopLevelOnly(cs, parent_id, post_id) ==
  {c \in cs : c.id = parent_id /\ c.post_id = post_id /\ c.parent_id = NULL}

\* SELECT * FROM comments WHERE id = ? AND post_id = ?
ParentComments(cs, parent_id, post_id) ==
  {c \in cs : c.id = parent_id /\ c.post_id = post_id}

\* Verify parent comment exists if provided
CreateCommentSelectParent(p) ==
  LET r == reqs[p] IN
  /\ r.op = "createComment" /\ r.pc = "selectParent"
  /\ reqs' = [reqs EXCEPT ![p] =
       IF ParentComments(comments, r.parent_id[1], r.post_id) = {}
       THEN Respond(r, 404, "Parent comment not found")
       ELSE [r EXCEPT !.pc = "insert"]]
  /\ UNCHANGED <<storeVars, pageVars>>

\* the row of INSERT INTO comments (content, post_id, user_id, parent_id);
\* created_at takes its default, the time of the insert
NewCommentRow(r, id, now) ==
  [id |-> id, content |-> r.content, post_id |-> r.post_id, user_id |-> r.uid,
   parent_id |-> IF Truthy(r.parent_id) THEN r.parent_id[1] ELSE NULL,
   created_at |-> now]

\* created_at of the newest row of cs, 0 when there is none
LastCreated(cs) ==
  IF cs = {} THEN 0
  ELSE (CHOOSE c \in cs : \A d \in cs : d.created_at <= c.created_at).created_at

\* CURRENT_TIMESTAMP counts whole seconds and never goes back: an insert happens
\* in the second of the newest row or in a later one
Clock(cs) == {LastCreated(cs), LastCreated(cs) + 1} \ {0}

\* INSERT INTO comments: a row that breaks a foreign key is rejected (500)
CreateCommentInsert(p, now) ==
  LET r == reqs[p]
      row == NewCommentRow(r, nextCommentId, now) IN
  /\ r.op = "createComment" /\ r.pc = "insert"
  /\ \A c \in comments : c.created_at <= now
  /\ IF CommentFKsHold(posts, users, comments, row)
     THEN /\ comments' = comments \cup {row}
          /\ nextCommentId' = nextCommentId + 1
          /\ reqs' = [reqs EXCEPT ![p] = [r EXCEPT !.pc = "selectCreated", !.id = row.id]]
     ELSE /\ reqs' = [reqs EXCEPT ![p] = Respond(r, 500, "Server error")]
          /\ UNCHANGED <<comments, nextCommentId>>
  /\ UNCHANGED <<users, posts, likes, nextLikeId, nextPostId, nextUserId, pageVars>>

\* Get the created comment with user info, respond 201
CreateCommentRespond(p) ==
  LET r == reqs[p] IN
  /\ r.op = "createComment" /\ r.pc = "selectCreated"
  /\ reqs' = [reqs EXCEPT ![p] = Respond(r, 201, "Comment added successfully")]
  /\ UNCHANGED <<storeVars, pageVars>>

\* mutant: a requester without rights on a comment that exists is told so
CommentNotFound_OrForbidden(r, cs) ==
  IF r.id \in CommentIdsOf(cs) THEN Respond(r, 403, "Access denied")
  ELSE Respond(r, 404, "Comment not found")

\* if (comments.length === 0) return res.status(404): one response, whether no
\* comment of cs has the id or the requester has no rights on it
CommentNotFound(r, cs) == Respond(r, 404, "Comment not found or access denied")

\* body('content').notEmpty()
UpdateCommentBegin(p, u, id, content) ==
  /\ Free(p) /\ auth(u)
  /\ reqs' = [reqs EXCEPT ![p] =
       LET r == [NewReq(u, "updateComment") EXCEPT !.content = content, !.id = id]
       IN IF ~notEmpty(content) THEN Respond(r, 400, "errors")
          ELSE [r EXCEPT !.pc = "selectOwned"]]
  /\ UNCHANGED <<storeVars, pageVars>>

\* mutant: the ownership condition is dropped
OwnedComments_AnyUser(cs, id, uid) == {c \in cs : c.id = id}

\* SELECT * FROM comments WHERE id = ? AND user_id = ?
OwnedComments(cs, id, uid) == {c \in cs : c.id = id /\ c.user_id = uid}

\* Check if user owns the comment
UpdateCommentSelect(p) ==
  LET r == reqs[p] IN
  /\ r.op = "updateComment" /\ r.pc = "selectOwned"
  /\ reqs' = [reqs EXCEPT ![p] =
       IF OwnedComments(comments, r.id, r.uid) = {}
       THEN CommentNotFound(r, comments)
       ELSE [r EXCEPT !.pc = "update"]]
  /\ UNCHANGED <<storeVars, pageVars>>

\* mutant: the statement has no WHERE clause
UpdateCommentStmt_EveryRow(cs, id, content) == {[c EXCEPT !.content = content] : c \in cs}

\* UPDATE comments SET content = ? WHERE id = ?
UpdateCommentStmt(cs, id, content) ==
  {IF c.id = id THEN [c EXCEPT !.content = content] ELSE c : c \in cs}

UpdateCommentUpdate(p) ==
  LET r == reqs[p] IN
  /\ r.op = "updateComment" /\ r.pc = "update"
  /\ comments' = UpdateCommentStmt(comments, r.id, r.content)
  /\ reqs' = [reqs EXCEPT ![p] = Respond(r, 200, "Comment updated successfully")]
  /\ UNCHANGED <<users, posts, likes, nextCommentId, nextLikeId, nextPostId, nextUserId, pageVars>>

DeleteCommentBegin(p, u, id) ==
  /\ Free(p) /\ auth(u)
  /\ reqs' = [reqs EXCEPT ![p] =
       [NewReq(u, "deleteComment") EXCEPT !.id = id, !.pc = "selectAllowed"]]
  /\ UNCHANGED <<storeVars, pageVars>>

\* mutant: the ownership-or-admin condition is dropped
DeletableComments_AnyUser(cs, id, uid, role) == {c \in cs : c.id = id}

\* SELECT * FROM comments WHERE id = ? AND (user_id = ? OR ? = "admin")
DeletableComments(cs, id, uid, role) ==
  {c \in cs : c.id = id /\ (c.user_id = uid \/ role = "admin")}

\* Check if user owns the comment or is admin
DeleteCommentSelect(p) ==
  LET r == reqs[p] IN
  /\ r.op = "deleteComment" /\ r.pc = "selectAllowed"
  /\ reqs' = [reqs EXCEPT ![p] =
       IF DeletableComments(comments, r.id, r.uid, r.role) = {}
       THEN CommentNotFound(r, comments)
       ELSE [r EXCEPT !.pc = "delete"]]
  /\ UNCHANGED <<storeVars, pageVars>>

\* Delete comment and all its replies
DeleteCommentDelete(p) ==
  LET r == reqs[p] IN
  /\ r.op = "deleteComment" /\ r.pc = "delete"
  /\ comments' = DeleteCommentStmt(comments, r.id)
  /\ reqs' = [reqs EXCEPT ![p] = Respond(r, 200, "Comment deleted successfully")]
  /\ UNCHANGED <<users, posts, likes, nextCommentId, nextLikeId, nextPostId, nextUserId, pageVars>>

----------------------------------------------------------------------------
(* routes/posts.js: create post *)

\* create-post requests that have not yet inserted their row
PendingPosts ==
  Cardinality({p \in Procs : reqs[p].op = "createPost" /\ reqs[p].pc = "insert"})

\* Create new post: the validators of title, content and status
CreatePostBegin(p, u, title, content, post_status) ==
  /\ Free(p) /\ auth(u)
  /\ nextPostId + PendingPosts <= MaxPosts
  /\ reqs' = [reqs EXCEPT ![p] =
       LET r == [NewReq(u, "createPost") EXCEPT !.content = content,
                                                !.post_status = post_status]
       IN IF notEmpty(title) /\ notEmpty(content) /\ isIn(post_status, PostStatuses)
          THEN [r EXCEPT !.pc = "insert"]
          ELSE Respond(r, 400, "errors")]
  /\ UNCHANGED <<storeVars, pageVars>>

\* INSERT INTO posts: a row that breaks the foreign key is rejected (500)
CreatePostInsert(p) ==
  LET r == reqs[p]
      row == NewPost(nextPostId, r.uid, r.post_status) IN
  /\ r.op = "createPost" /\ r.pc = "insert"
  /\ IF PostFKsHold(users, row)
     THEN /\ posts' = posts \cup {row}
          /\ nextPostId' = nextPostId + 1
          /\ reqs' = [reqs EXCEPT ![p] =
               [Respond(r, 201, "Post created successfully") EXCEPT !.id = row.id]]
     ELSE /\ reqs' = [reqs EXCEPT ![p] = Respond(r, 500, "Server error")]
          /\ UNCHANGED <<posts, nextPostId>>
  /\ UNCHANGED <<users, comments, likes, nextCommentId, nextLikeId, nextUserId, pageVars>>

----------------------------------------------------------------------------
(* routes/auth.js: register *)

\* register requests that have not yet inserted their row
PendingUsers ==
  Cardinality({p \in Procs : reqs[p].op = "register" /\
                             reqs[p].pc \in {"selectExisting", "insert"}})

\* Register user, any caller: the validators of username, email, password and
\* full_name
RegisterBegin(p, username, email, password, full_name) ==
  /\ Free(p)
  /\ nextUserId + PendingUsers <= MaxUsers
  /\ reqs' = [reqs EXCEPT ![p] =
       LET r == [IdleReq EXCEPT !.op = "register", !.username = username, !.email = email]
       IN IF /\ isLength(username, 3) /\ isEmail(email)
             /\ isLength(password, 6) /\ notEmpty(full_name)
          THEN [r EXCEPT !.pc = "selectExisting"]
          ELSE Respond(r, 400, "errors")]
  /\ UNCHANGED <<storeVars, pageVars>>

\* SELECT * FROM users WHERE email = ? OR username = ?
ExistingUsers(us, email, username) ==
  {u \in us : u.email = email \/ u.username = username}

\* Check if user already exists
RegisterSelect(p) ==
  LET r == reqs[p] IN
  /\ r.op = "register" /\ r.pc = "selectExisting"
  /\ reqs' = [reqs EXCEPT ![p] =
       IF ExistingUsers(users, r.email, r.username) # {}
       THEN Respond(r, 400, "User already exists")
       ELSE [r EXCEPT !.pc = "insert"]]
  /\ UNCHANGED <<storeVars, pageVars>>

\* Create user: a row that breaks a unique key is rejected (500)
RegisterInsert(p) ==
  LET r == reqs[p]
      row == NewUser(nextUserId, r.username, r.email) IN
  /\ r.op = "register" /\ r.pc = "insert"
  /\ IF UserKeysHold(users, row)
     THEN /\ users' = users \cup {row}
          /\ nextUserId' = nextUserId + 1
          /\ reqs' = [reqs EXCEPT ![p] =
               [Respond(r, 201, "User registered successfully") EXCEPT !.id = row.id]]
     ELSE /\ reqs' = [reqs EXCEPT ![p] = Respond(r, 500, "Server error")]
          /\ UNCHANGED <<users, nextUserId>>
  /\ UNCHANGED <<posts, comments, likes, nextCommentId, nextLikeId, nextPostId, pageVars>>

----------------------------------------------------------------------------
(* routes/posts.js: like / unlike *)

\* toggle-like requests that may still insert a row
PendingLikes ==
  Cardinality({p \in Procs : reqs[p].op = "toggleLike" /\
                             reqs[p].pc \in {"selectLike", "insertLike"}})

ToggleLikeBegin(p, u, post_id) ==
  /\ Free(p) /\ auth(u)
  /\ nextLikeId + PendingLikes <= MaxLikes
  /\ reqs' = [reqs EXCEPT ![p] =
       [NewReq(u, "toggleLike") EXCEPT !.post_id = post_id, !.pc = "selectLike"]]
  /\ UNCHANGED <<storeVars, pageVars>>

\* SELECT * FROM likes WHERE user_id = ? AND post_id = ?
LikesOf(ls, uid, post_id) == {l \in ls : l.user_id = uid /\ l.post_id = post_id}

\* Check if already liked
ToggleLikeSelect(p) ==
  LET r == reqs[p] IN
  /\ r.op = "toggleLike" /\ r.pc = "selectLike"
  /\ reqs' = [reqs EXCEPT ![p] =
       IF LikesOf(likes, r.uid, r.post_id) # {} THEN [r EXCEPT !.pc = "deleteLike"]
       ELSE [r EXCEPT !.pc = "insertLike"]]
  /\ UNCHANGED <<storeVars, pageVars>>

\* DELETE FROM likes WHERE user_id = ? AND post_id = ?
DeleteLikeStmt(ls, uid, post_id) == ls \ LikesOf(ls, uid, post_id)

ToggleLikeDelete(p) ==
  LET r == reqs[p] IN
  /\ r.op = "toggleLike" /\ r.pc = "deleteLike"
  /\ likes' = DeleteLikeStmt(likes, r.uid, r.post_id)
  /\ reqs' = [reqs EXCEPT ![p] = [r EXCEPT !.pc = "decrement"]]
  /\ UNCHANGED <<users, posts, comments, nextCommentId, nextLikeId, nextPostId, nextUserId, pageVars>>

\* mutant: the unlike branch increments as the like branch does
AddLikes_AlwaysUp(ps, post_id, d) ==
  {IF q.id = post_id THEN [q EXCEPT !.likes = q.likes + 1] ELSE q : q \in ps}

\* UPDATE posts SET likes = likes + d WHERE id = ?
AddLikes(ps, post_id, d) ==
  {IF q.id = post_id THEN [q EXCEPT !.likes = q.likes + d] ELSE q : q \in ps}

ToggleLikeDecrement(p) ==
  LET r == reqs[p] IN
  /\ r.op = "toggleLike" /\ r.pc = "decrement"
  /\ posts' = AddLikes(posts, r.post_id, -1)
  /\ reqs' = [reqs EXCEPT ![p] = [Respond(r, 200, "Post unliked") EXCEPT !.liked = "false"]]
  /\ UNCHANGED <<users, comments, likes, nextCommentId, nextLikeId, nextPostId, nextUserId, pageVars>>

\* INSERT INTO likes (user_id, post_id): a row that breaks a key is rejected (500)
ToggleLikeInsert(p) ==
  LET r == reqs[p]
      row == [id |-> nextLikeId, user_id |-> r.uid, post_id |-> r.post_id] IN
  /\ r.op = "toggleLike" /\ r.pc = "insertLike"
  /\ IF LikeKeysHold(posts, users, likes, row)
     THEN /\ likes' = likes \cup {row}
          /\ nextLikeId' = nextLikeId + 1
          /\ reqs' = [reqs EXCEPT ![p] = [r EXCEPT !.pc = "increment"]]
     ELSE /\ reqs' = [reqs EXCEPT ![p] = Respond(r, 500, "Server error")]
          /\ UNCHANGED <<likes, nextLikeId>>
  /\ UNCHANGED <<users, posts, comments, nextCommentId, nextPostId, nextUserId, pageVars>>

ToggleLikeIncrement(p) ==
  LET r == reqs[p] IN
  /\ r.op = "toggleLike" /\ r.pc = "increment"
  /\ posts' = AddLikes(posts, r.post_id, 1)
  /\ reqs' = [reqs EXCEPT ![p] = [Respond(r, 200, "Post liked") EXCEPT !.liked = "true"]]
  /\ UNCHANGED <<users, comments, likes, nextCommentId, nextLikeId, nextPostId, nextUserId, pageVars>>

\* Delete post
DeletePostBegin(p, u, id) ==
  /\ Free(p) /\ auth(u)
  /\ reqs' = [reqs EXCEPT ![p] =
       [NewReq(u, "deletePost") EXCEPT !.id = id, !.pc = "selectAllowed"]]
  /\ UNCHANGED <<storeVars, pageVars>>

\* SELECT * FROM posts WHERE id = ? AND (author_id = ? OR ? = "admin")
DeletablePosts(ps, id, uid, role) ==
  {q \in ps : q.id = id /\ (q.author_id = uid \/ role = "admin")}

\* Check if user owns the post or is admin
DeletePostSelect(p) ==
  LET r == reqs[p] IN
  /\ r.op = "deletePost" /\ r.pc = "selectAllowed"
  /\ reqs' = [reqs EXCEPT ![p] =
       IF DeletablePosts(posts, r.id, r.uid, r.role) = {}
       THEN Respond(r, 404, "Post not found or access denied")
       ELSE [r EXCEPT !.pc = "delete"]]
  /\ UNCHANGED <<storeVars, pageVars>>

\* DELETE FROM posts WHERE id = ?, with the cascade to comments and likes
DeletePostDelete(p) ==
  LET r == reqs[p] IN
  /\ r.op = "deletePost" /\ r.pc = "delete"
  /\ posts' = DeletePostRows(posts, {r.id})
  /\ comments' = CascadeComments(comments, {r.id}, {})
  /\ likes' = CascadeLikes(likes, {r.id}, {})
  /\ reqs' = [reqs EXCEPT ![p] = Respond(r, 200, "Post deleted successfully")]
  /\ UNCHANGED <<users, nextCommentId, nextLikeId, nextPostId, nextUserId, pageVars>>

----------------------------------------------------------------------------
(* routes/admin.js: delete user *)

\* middleware/adminAuth: the endpoints under the admin prefix require role = admin
adminAuth(u) == auth(u) /\ u.role = "admin"

\* Prevent admin from deleting themselves
DeleteUserBegin(p, u, id) ==
  /\ Free(p) /\ adminAuth(u)
  /\ reqs' = [reqs EXCEPT ![p] =
       LET r == [NewReq(u, "deleteUser") EXCEPT !.id = id]
       IN IF id = u.id THEN Respond(r, 400, "Cannot delete your own account")
          ELSE [r EXCEPT !.pc = "delete"]]
  /\ UNCHANGED <<storeVars, pageVars>>

\* posts whose author is in userIds: FOREIGN KEY (author_id) ... ON DELETE CASCADE
PostsOfUsers(ps, userIds) == {q.id : q \in {x \in ps : x.author_id \in userIds}}

\* DELETE FROM users WHERE id = ?, with the cascade to posts, comments and likes
DeleteUserDelete(p) ==
  LET r == reqs[p]
      gone == PostsOfUsers(posts, {r.id}) IN
  /\ r.op = "deleteUser" /\ r.pc = "delete"
  /\ users' = {u \in users : u.id # r.id}
  /\ posts' = DeletePostRows(posts, gone)
  /\ comments' = CascadeComments(comments, gone, {r.id})
  /\ likes' = CascadeLikes(likes, gone, {r.id})
  /\ reqs' = [reqs EXCEPT ![p] = Respond(r, 200, "User deleted successfully")]
  /\ UNCHANGED <<nextCommentId, nextLikeId, nextPostId, nextUserId, pageVars>>

----------------------------------------------------------------------------
(* routes/admin.js: delete post, delete comment *)

\* Delete post (admin): no lookup of the post precedes the statement
AdminDeletePostBegin(p, u, id) ==
  /\ Free(p) /\ adminAuth(u)
  /\ reqs' = [reqs EXCEPT ![p] =
       [NewReq(u, "adminDeletePost") EXCEPT !.id = id, !.pc = "delete"]]
  /\ UNCHANGED <<storeVars, pageVars>>

\* DELETE FROM posts WHERE id = ?, with the cascade to comments and likes; 200
\* whether or not a row was deleted
AdminDeletePostDelete(p) ==
  LET r == reqs[p] IN
  /\ r.op = "adminDeletePost" /\ r.pc = "delete"
  /\ posts' = DeletePostRows(posts, {r.id})
  /\ comments' = CascadeComments(comments, {r.id}, {})
  /\ likes' = CascadeLikes(likes, {r.id}, {})
  /\ reqs' = [reqs EXCEPT ![p] = Respond(r, 200, "Post deleted successfully")]
  /\ UNCHANGED <<users, nextCommentId, nextLikeId, nextPostId, nextUserId, pageVars>>

\* Delete comment (admin): no lookup of the comment precedes the statement
AdminDeleteCommentBegin(p, u, id) ==
  /\ Free(p) /\ adminAuth(u)
  /\ reqs' = [reqs EXCEPT ![p] =
       [NewReq(u, "adminDeleteComment") EXCEPT !.id = id, !.pc = "delete"]]
  /\ UNCHANGED <<storeVars, pageVars>>

\* DELETE FROM comments WHERE id = ? OR parent_id = ?; 200 whether or not a row
\* was deleted
AdminDeleteCommentDelete(p) ==
  LET r == reqs[p] IN
  /\ r.op = "adminDeleteComment" /\ r.pc = "delete"
  /\ comments' = DeleteCommentStmt(comments, r.id)
  /\ reqs' = [reqs EXCEPT ![p] = Respond(r, 200, "Comment deleted successfully")]
  /\ UNCHANGED <<users, posts, likes, nextCommentId, nextLikeId, nextPostId, nextUserId, pageVars>>

----------------------------------------------------------------------------
(* routes/admin.js: user role *)

Roles == {"user", "admin"}

\* Update user role: the validator of role, then
\* Prevent admin from removing their own admin role
UpdateRoleBegin(p, u, id, role) ==
  /\ Free(p) /\ adminAuth(u)
  /\ reqs' = [reqs EXCEPT ![p] =
       LET r == [NewReq(u, "updateRole") EXCEPT !.id = id, !.content = role]
       IN IF ~isIn(role, Roles) THEN Respond(r, 400, "errors")
          ELSE IF id = u.id /\ role = "user"
          THEN Respond(r, 400, "Cannot remove your own admin role")
          ELSE [r EXCEPT !.pc = "update"]]
  /\ UNCHANGED <<storeVars, pageVars>>

\* UPDATE users SET role = ? WHERE id = ?
SetUserRole(us, id, role) ==
  {IF u.id = id THEN [u EXCEPT !.role = role] ELSE u : u \in us}

UpdateRoleUpdate(p) ==
  LET r == reqs[p] IN
  /\ r.op = "updateRole" /\ r.pc = "update"
  /\ users' = SetUserRole(users, r.id, r.content)
  /\ reqs' = [reqs EXCEPT ![p] = Respond(r, 200, "User role updated successfully")]
  /\ UNCHANGED <<posts, comments, likes, nextCommentId, nextLikeId, nextPostId, nextUserId, pageVars>>

----------------------------------------------------------------------------
(* routes/posts.js: read and update a post; routes/admin.js: post status *)

\* mutant: a post that was viewed before is not counted again
AddView_Once(ps, id) ==
  {IF q.id = id /\ q.views = 0 THEN [q EXCEPT !.views = 1] ELSE q : q \in ps}

\* UPDATE posts SET views = views + 1 WHERE id = ?
AddView(ps, id) ==
  {IF q.id = id THEN [q EXCEPT !.views = q.views + 1] ELSE q : q \in ps}

\* Get single post, any caller: Increment view count
GetPostIncrement(p, id) ==
  /\ Free(p)
  /\ \A q \in posts : q.id = id => q.views < MaxViews
  /\ posts' = AddView(posts, id)
  /\ reqs' = [reqs EXCEPT ![p] = [IdleReq EXCEPT !.op = "getPost", !.id = id, !.pc = "selectPost"]]
  /\ UNCHANGED <<users, comments, likes, nextCommentId, nextLikeId, nextPostId, nextUserId, pageVars>>

\* SELECT ... WHERE p.id = ? AND p.status = 'published'
GetPostSelect(p) ==
  LET r == reqs[p] IN
  /\ r.op = "getPost" /\ r.pc = "selectPost"
  /\ reqs' = [reqs EXCEPT ![p] =
       IF PublishedPosts(posts, r.id) = {} THEN Respond(r, 404, "Post not found")
       ELSE Respond(r, 200, "post")]
  /\ UNCHANGED <<storeVars, pageVars>>

\* Update post: the validators of title, content and status
UpdatePostBegin(p, u, id, title, content, post_status) ==
  /\ Free(p) /\ auth(u)
  /\ reqs' = [reqs EXCEPT ![p] =
       LET r == [NewReq(u, "updatePost") EXCEPT !.id = id, !.content = content,
                                                !.post_status = post_status]
       IN IF notEmpty(title) /\ notEmpty(content) /\ isIn(post_status, PostStatuses)
          THEN [r EXCEPT !.pc = "selectAllowed"]
          ELSE Respond(r, 400, "errors")]
  /\ UNCHANGED <<storeVars, pageVars>>

\* Check if user owns the post or is admin
UpdatePostSelect(p) ==
  LET r == reqs[p] IN
  /\ r.op = "updatePost" /\ r.pc = "selectAllowed"
  /\ reqs' = [reqs EXCEPT ![p] =
       IF DeletablePosts(posts, r.id, r.uid, r.role) = {}
       THEN Respond(r, 404, "Post not found or access denied")
       ELSE [r EXCEPT !.pc = "update"]]
  /\ UNCHANGED <<storeVars, pageVars>>

\* UPDATE posts SET ..., status = ? WHERE id = ?
SetPostStatus(ps, id, post_status) ==
  {IF q.id = id THEN [q EXCEPT !.status = post_status] ELSE q : q \in ps}

UpdatePostUpdate(p) ==
  LET r == reqs[p] IN
  /\ r.op = "updatePost" /\ r.pc = "update"
  /\ posts' = SetPostStatus(posts, r.id, r.post_status)
  /\ reqs' = [reqs EXCEPT ![p] = Respond(r, 200, "Post updated successfully")]
  /\ UNCHANGED <<users, comments, likes, nextCommentId, nextLikeId, nextPostId, nextUserId, pageVars>>

\* Update post status (admin): the validator of status
UpdatePostStatusBegin(p, u, id, post_status) ==
  /\ Free(p) /\ adminAuth(u)
  /\ reqs' = [reqs EXCEPT ![p] =
       LET r == [NewReq(u, "updatePostStatus") EXCEPT !.id = id, !.post_status = post_status]
       IN IF isIn(post_status, PostStatuses) THEN [r EXCEPT !.pc = "update"]
          ELSE Respond(r, 400, "errors")]
  /\ UNCHANGED <<storeVars, pageVars>>

\* UPDATE posts SET status = ? WHERE id = ?
UpdatePostStatusUpdate(p) ==
  LET r == reqs[p] IN
  /\ r.op = "updatePostStatus" /\ r.pc = "update"
  /\ posts' = SetPostStatus(posts, r.id, r.post_status)
  /\ reqs' = [reqs EXCEPT ![p] = Respond(r, 200, "Post status updated successfully")]
  /\ UNCHANGED <<users, comments, likes, nextCommentId, nextLikeId, nextPostId, nextUserId, pageVars>>

----------------------------------------------------------------------------
(* Pagination of the list endpoints *)

\* the characters query strings are built from: decimal digits, the signs, a
\* white space character, the letters of the hexadecimal prefix, and a letter that
\* is a hexadecimal digit
Chars == {"0", "1", "3", "-", "+", " ", "x", "X", "a"}

Strings(n) == UNION {[1..k -> Chars] : k \in 0..n}

NaN == << >>

IsDigit(c) == c \in {"0", "1", "3"}

IsWhiteSpace(c) == c = " "

\* c is a digit of radix R (10 or 16)
IsRadixDigit(c, R) == IsDigit(c) \/ (R = 16 /\ c = "a")

DigitValue(c) == IF c = "0" THEN 0 ELSE IF c = "1" THEN 1 ELSE IF c = "3" THEN 3 ELSE 10

\* s without its leading white space
RECURSIVE TrimStart(_)
TrimStart(s) ==
  IF s # << >> /\ IsWhiteSpace(Head(s)) THEN TrimStart(Tail(s)) ELSE s

\* the longest prefix of s made of digits of radix R
RECURSIVE LeadingDigits(_, _)
LeadingDigits(s, R) ==
  IF s = << >> \/ ~IsRadixDigit(Head(s), R) THEN << >>
  ELSE <<Head(s)>> \o LeadingDigits(Tail(s), R)

RECURSIVE RadixValue(_, _)
RadixValue(ds, R) ==
  IF ds = << >> THEN 0
  ELSE R * RadixValue(SubSeq(ds, 1, Len(ds) - 1), R) + DigitValue(ds[Len(ds)])

DecimalValue(ds) == RadixValue(ds, 10)

\* parseInt(req.query.x), no radix given: leading white space is skipped, then one
\* sign, then a 0x or 0X prefix (which makes the radix 16), then the leading digits
\* of the radix are read; NaN without any digit
parseInt(f) ==
  IF f = Undefined THEN NaN
  ELSE LET t == TrimStart(f[1])
           neg == t # << >> /\ Head(t) = "-"
           u == IF t # << >> /\ Head(t) \in {"+", "-"} THEN Tail(t) ELSE t
           hex == Len(u) >= 2 /\ u[1] = "0" /\ u[2] \in {"x", "X"}
           R == IF hex THEN 16 ELSE 10
           ds == LeadingDigits(IF hex THEN SubSeq(u, 3, Len(u)) ELSE u, R)
       IN IF ds = << >> THEN NaN
          ELSE Given(IF neg THEN 0 - RadixValue(ds, R) ELSE RadixValue(ds, R))

\* parseInt(...) || d : NaN and 0 are falsy
OrDefault(n, d) == IF n = NaN \/ n[1] = 0 THEN d ELSE n[1]

\* mutant: the two defaults are swapped
DefaultLimit_Swapped(endpoint) == IF endpoint = "postComments" THEN 10 ELSE 20

\* const limit = parseInt(req.query.limit) || 20 (10 for the other endpoints)
DefaultLimit(endpoint) == IF endpoint = "postComments" THEN 20 ELSE 10

Endpoints == {"postComments", "userComments", "posts"}

\* mutant: Math.floor in place of Math.ceil
Ceil_Floor(total, limit) ==
  IF limit > 0 THEN total \div limit ELSE 0 - ((total + (0 - limit) - 1) \div (0 - limit))

\* Math.ceil(total / limit), limit # 0
Ceil(total, limit) ==
  IF limit > 0 THEN 0 - ((0 - total) \div limit) ELSE 0 - (total \div (0 - limit))

\* LIMIT ? OFFSET ? takes no negative number: the statement is rejected (500)
LimitClauseOk(limit, offset) == limit >= 0 /\ offset >= 0

\* the pagination object of the response
Pagination(page, limit, total) ==
  [current |-> page,
   total |-> Ceil(total, limit),
   hasNext |-> page * limit < total,
   hasPrev |-> page > 1]

NoQuery == [endpoint |-> "", page |-> Undefined, limit |-> Undefined]

\* the list request being handled: where it waits, what it computed, the total
\* its count query returned, its response
NoPagination ==
  [pc |-> "idle", status |-> 0, page |-> 0, limit |-> 0, offset |-> 0, count |-> 0,
   pagination |-> [current |-> 0, total |-> 0, hasNext |-> FALSE, hasPrev |-> FALSE]]

\* the handler of the list request in query: page, limit and offset, then the
\* query of the page, which the store rejects (500) or answers
ListSelect ==
  LET page == OrDefault(parseInt(query.page), 1)
      limit == OrDefault(parseInt(query.limit), DefaultLimit(query.endpoint))
      offset == (page - 1) * limit
      req == [NoPagination EXCEPT !.page = page, !.limit = limit, !.offset = offset]
  IN /\ query.endpoint # "" /\ pagination.pc = "idle"
     /\ pagination' =
          IF LimitClauseOk(limit, offset) THEN [req EXCEPT !.pc = "count"]
          ELSE [req EXCEPT !.pc = "done", !.status = 500]
     /\ UNCHANGED <<storeVars, reqs, hist, query, listed>>

\* SELECT COUNT(*) as total: total rows match the query when the statement runs,
\* whatever the page query saw; then the response
ListCount(total) ==
  /\ pagination.pc = "count"
  /\ pagination' = [pagination EXCEPT !.pc = "done", !.status = 200, !.count = total,
                       !.pagination = Pagination(pagination.page, pagination.limit, total)]
  /\ UNCHANGED <<storeVars, reqs, hist, query, listed>>

----------------------------------------------------------------------------
(* routes/comments.js: the comments of a post, the replies of a comment *)

\* the list request being handled and its response
NoListing ==
  [op |-> "", pc |-> "idle", id |-> 0, page |-> 0, limit |-> 0, offset |-> 0,
   status |-> 0, rows |-> << >>,
   pagination |-> [current |-> 0, total |-> 0, hasNext |-> FALSE, hasPrev |-> FALSE]]

Min(a, b) == IF a <= b THEN a ELSE b

\* ORDER BY created_at DESC (desc) or ASC: the sequences holding each row once in
\* that order; rows of the same second come in any order
OrderByCreated(rows, desc) ==
  LET n == Cardinality(rows) IN
  {s \in [1..n -> rows] :
     /\ \A i, j \in 1..n : i # j => s[i] # s[j]
     /\ \A i, j \in 1..n : i < j =>
          IF desc THEN s[i].created_at >= s[j].created_at
          ELSE s[i].created_at <= s[j].created_at}

\* LIMIT limit OFFSET offset, both >= 0
LimitOffset(s, limit, offset) == SubSeq(s, offset + 1, Min(offset + limit, Len(s)))

\* (SELECT COUNT(*) FROM comments WHERE parent_id = c.id)
RepliesCount(cs, id) == Cardinality({d \in cs : Eq(d.parent_id, id)})

\* mutant: the listing is not restricted to comments without a parent
TopLevelComments_WithReplies(us, cs, postId) ==
  {c \in cs : c.post_id = postId /\ c.user_id \in UserIdsOf(us)}

\* FROM comments c JOIN users u ON c.user_id = u.id
\* WHERE c.post_id = ? AND c.parent_id IS NULL
TopLevelComments(us, cs, postId) ==
  {c \in cs : c.post_id = postId /\ c.parent_id = NULL /\ c.user_id \in UserIdsOf(us)}

\* SELECT c.*, ..., (SELECT COUNT(*) ...) as replies_count
TopLevelRows(us, cs, postId) ==
  {[replies_count |-> RepliesCount(cs, c.id)] @@ c : c \in TopLevelComments(us, cs, postId)}

\* SELECT COUNT(*) as total FROM comments WHERE post_id = ? AND parent_id IS NULL
TopLevelTotal(cs, postId) ==
  Cardinality({c \in cs : c.post_id = postId /\ c.parent_id = NULL})

\* Get comments for a post: page, limit and offset, then the rows
ListCommentsSelect(postId, page_q, limit_q) ==
  LET page == OrDefault(parseInt(page_q), 1)
      limit == OrDefault(parseInt(limit_q), DefaultLimit("postComments"))
      offset == (page - 1) * limit
      req == [NoListing EXCEPT !.op = "listComments", !.id = postId, !.page = page,
                               !.limit = limit, !.offset = offset]
  IN /\ listed.pc # "count"
     /\ IF LimitClauseOk(limit, offset)
        THEN \E s \in OrderByCreated(TopLevelRows(users, comments, postId), TRUE) :
               listed' = [req EXCEPT !.pc = "count", !.rows = LimitOffset(s, limit, offset)]
        ELSE listed' = [req EXCEPT !.pc = "done", !.status = 500]
     /\ UNCHANGED <<storeVars, reqs, query, pagination>>

\* the count query and the response
ListCommentsCount ==
  /\ listed.op = "listComments" /\ listed.pc = "count"
  /\ listed' = [listed EXCEPT !.pc = "done", !.status = 200,
                  !.pagination = Pagination(listed.page, listed.limit,
                                            TopLevelTotal(comments, listed.id))]
  /\ UNCHANGED <<storeVars, reqs, query, pagination>>

\* mutant: the replies are the whole subtree under the comment
RepliesOf_Subtree(us, cs, commentId) ==
  {c \in cs : c.id \in CascadeParent(cs, {commentId}) \ {commentId} /\ c.user_id \in UserIdsOf(us)}

\* FROM comments c JOIN users u ON c.user_id = u.id WHERE c.parent_id = ?
RepliesOf(us, cs, commentId) ==
  {c \in cs : Eq(c.parent_id, commentId) /\ c.user_id \in UserIdsOf(us)}

\* Get replies for a comment
ListReplies(commentId) ==
  /\ listed.pc # "count"
  /\ \E s \in OrderByCreated(RepliesOf(users, comments, commentId), FALSE) :
       listed' = [NoListing EXCEPT !.op = "listReplies", !.id = commentId, !.pc = "done",
                                   !.status = 200, !.rows = s]
  /\ UNCHANGED <<storeVars, reqs, query, pagination>>

----------------------------------------------------------------------------
(* What a client sees of its last two requests, one after the other *)

NoObs ==
  [op |-> "", uid |-> 0, post_id |-> 0, status |-> 0, liked |-> "",
   postExisted |-> FALSE, hadLike |-> FALSE, likesBefore |-> 0]

NoHist == [prev |-> NoObs, cur |-> NoObs]

LikesCounter(ps, post_id) ==
  IF post_id \in PostIdsOf(ps) THEN (CHOOSE q \in ps : q.id = post_id).likes ELSE 0

\* the request r as it begins, with the store as it is then
Snapshot(r) ==
  [NoObs EXCEPT !.op = r.op, !.uid = r.uid, !.post_id = r.post_id,
                !.postExisted = r.post_id \in PostIdsOf(posts),
                !.hadLike = LikesOf(likes, r.uid, r.post_id) # {},
                !.likesBefore = LikesCounter(posts, r.post_id)]

\* process 1's requests are recorded as they begin and as they respond
Observe ==
  LET r == reqs'[1]
      begun == IF Free(1) THEN [prev |-> hist.cur, cur |-> Snapshot(r)] ELSE hist
  IN hist' = IF r.pc = "done"
             THEN [begun EXCEPT !.cur.status = r.status, !.cur.liked = r.liked]
             ELSE begun

----------------------------------------------------------------------------
(* Specifications *)

\* users 1 (the admin created at start-up: admin, admin@blog.com) and 2 (bob,
\* who registered as bob@x.io)
InitUsers ==
  {[NewUser(1, <<"a", "d", "m", "i", "n">>,
            <<"a", "d", "m", "i", "n", "@", "b", "l", "o", "g", ".", "c", "o", "m">>)
      EXCEPT !.role = "admin"],
   NewUser(2, <<"b", "o", "b">>, <<"b", "o", "b", "@", "x", ".", "i", "o">>)}

\* posts 1 and 2 are published, post 3 is a draft, there is no post 4
Init ==
  /\ users = InitUsers
  /\ posts = {NewPost(1, 1, "published"), NewPost(2, 2, "published"), NewPost(3, 2, "draft")}
  /\ comments = {}
  /\ likes = {}
  /\ nextCommentId = 1
  /\ nextLikeId = 1
  /\ nextPostId = 4
  /\ nextUserId = 3
  /\ reqs = [p \in Procs |-> IdleReq]
  /\ query = NoQuery
  /\ pagination = NoPagination
  /\ listed = NoListing
  /\ hist = NoHist

PostIdInputs == 1..4

CommentIdInputs == 0..MaxComments
ParentIdInputs == {Undefined} \cup {Given(i) : i \in CommentIdInputs}

\* one comment request at a time (every handler runs to its response before the
\* next begins), over both published posts, the draft and a post that does not
\* exist; user 2 writes the comments, both users edit and delete them
NextComments ==
  \/ \E u \in users, content \in {"", "a"}, post_id \in PostIdInputs, parent_id \in ParentIdInputs :
       u.id = 2 /\ CreateCommentBegin(1, u, content, post_id, parent_id) /\ UNCHANGED hist
  \/ \E u \in users, id \in CommentIdInputs, content \in {"", "a"} :
       UpdateCommentBegin(1, u, id, content) /\ UNCHANGED hist
  \/ \E u \in users, id \in CommentIdInputs : DeleteCommentBegin(1, u, id) /\ UNCHANGED hist
  \/ CreateCommentSelectPost(1) /\ UNCHANGED hist
  \/ CreateCommentSelectParent(1) /\ UNCHANGED hist
  \/ (\E now \in Clock(comments) : CreateCommentInsert(1, now)) /\ UNCHANGED hist
  \/ CreateCommentRespond(1) /\ UNCHANGED hist
  \/ UpdateCommentSelect(1) /\ UNCHANGED hist
  \/ UpdateCommentUpdate(1) /\ UNCHANGED hist
  \/ DeleteCommentSelect(1) /\ UNCHANGED hist
  \/ DeleteCommentDelete(1) /\ UNCHANGED hist
  \/ \E u \in users, id \in CommentIdInputs : AdminDeleteCommentBegin(1, u, id) /\ UNCHANGED hist
  \/ AdminDeleteCommentDelete(1) /\ UNCHANGED hist

Spec == Init /\ [][NextComments]_vars

\* one comment request at a time on post 1, edits changing the content
NextEdit ==
  \/ \E u \in users, content \in {"", "a"}, parent_id \in {Undefined, Given(1)} :
       CreateCommentBegin(1, u, content, 1, parent_id) /\ UNCHANGED hist
  \/ \E u \in users, id \in CommentIdInputs, content \in {"", "b"} :
       UpdateCommentBegin(1, u, id, content) /\ UNCHANGED hist
  \/ \E u \in users, id \in CommentIdInputs : DeleteCommentBegin(1, u, id) /\ UNCHANGED hist
  \/ CreateCommentSelectPost(1) /\ UNCHANGED hist
  \/ CreateCommentSelectParent(1) /\ UNCHANGED hist
  \/ (\E now \in Clock(comments) : CreateCommentInsert(1, now)) /\ UNCHANGED hist
  \/ CreateCommentRespond(1) /\ UNCHANGED hist
  \/ UpdateCommentSelect(1) /\ UNCHANGED hist
  \/ UpdateCommentUpdate(1) /\ UNCHANGED hist
  \/ DeleteCommentSelect(1) /\ UNCHANGED hist
  \/ DeleteCommentDelete(1) /\ UNCHANGED hist
  \/ \E u \in users, id \in {0, 1} : AdminDeleteCommentBegin(1, u, id) /\ UNCHANGED hist
  \/ AdminDeleteCommentDelete(1) /\ UNCHANGED hist

SpecEdit == Init /\ [][NextEdit]_vars

\* two comment requests in flight on post 1, their store statements interleaved;
\* user 2 writes the comments, both users delete them
NextCommentsRace ==
  \/ \E p \in Procs, u \in users, parent_id \in {Undefined} \cup {Given(i) : i \in 1..MaxComments} :
       u.id = 2 /\ CreateCommentBegin(p, u, "a", 1, parent_id) /\ UNCHANGED hist
  \/ \E p \in Procs, u \in users, id \in 1..MaxComments :
       DeleteCommentBegin(p, u, id) /\ UNCHANGED hist
  \/ \E p \in Procs : CreateCommentSelectPost(p) /\ UNCHANGED hist
  \/ \E p \in Procs : CreateCommentSelectParent(p) /\ UNCHANGED hist
  \/ \E p \in Procs, now \in Clock(comments) : CreateCommentInsert(p, now) /\ UNCHANGED hist
  \/ \E p \in Procs : CreateCommentRespond(p) /\ UNCHANGED hist
  \/ \E p \in Procs : DeleteCommentSelect(p) /\ UNCHANGED hist
  \/ \E p \in Procs : DeleteCommentDelete(p) /\ UNCHANGED hist
  \/ \E p \in Procs, u \in users, id \in {0, 1} :
       AdminDeleteCommentBegin(p, u, id) /\ UNCHANGED hist
  \/ \E p \in Procs : AdminDeleteCommentDelete(p) /\ UNCHANGED hist

SpecRace == Init /\ [][NextCommentsRace]_vars

\* one like, delete-post or delete-user request at a time
NextLikes ==
  \/ \E u \in users, post_id \in {1, 2, 4} : ToggleLikeBegin(1, u, post_id) /\ Observe
  \/ \E u \in users, id \in {1, 2} : DeletePostBegin(1, u, id) /\ Observe
  \/ \E u \in users, id \in {1, 2} : DeleteUserBegin(1, u, id) /\ Observe
  \/ ToggleLikeSelect(1) /\ Observe
  \/ ToggleLikeDelete(1) /\ Observe
  \/ ToggleLikeDecrement(1) /\ Observe
  \/ ToggleLikeInsert(1) /\ Observe
  \/ ToggleLikeIncrement(1) /\ Observe
  \/ DeletePostSelect(1) /\ Observe
  \/ DeletePostDelete(1) /\ Observe
  \/ DeleteUserDelete(1) /\ Observe
  \/ \E u \in users, id \in {2, 4} : AdminDeletePostBegin(1, u, id) /\ Observe
  \/ AdminDeletePostDelete(1) /\ Observe

SpecLikes == Init /\ [][NextLikes]_vars

\* two like requests in flight, their store statements interleaved
NextLikesRace ==
  \/ \E p \in Procs, u \in users, post_id \in {1, 2} :
       ToggleLikeBegin(p, u, post_id) /\ UNCHANGED hist
  \/ \E p \in Procs : ToggleLikeSelect(p) /\ UNCHANGED hist
  \/ \E p \in Procs : ToggleLikeDelete(p) /\ UNCHANGED hist
  \/ \E p \in Procs : ToggleLikeDecrement(p) /\ UNCHANGED hist
  \/ \E p \in Procs : ToggleLikeInsert(p) /\ UNCHANGED hist
  \/ \E p \in Procs : ToggleLikeIncrement(p) /\ UNCHANGED hist

SpecLikesRace == Init /\ [][NextLikesRace]_vars

QueryInputs == {Undefined} \cup {Given(s) : s \in Strings(MaxLen)}

\* the values of the other parameter while one parameter ranges over QueryInputs:
\* missing, 0, 1, 3, 10, -1 and a value without digits
CompanionInputs ==
  {Undefined, Given(<<"0">>), Given(<<"1">>), Given(<<"3">>), Given(<<"1", "0">>),
   Given(<<"-", "1">>), Given(<<"a">>)}

\* a list request arrives with its query string
InitPage ==
  /\ users = InitUsers
  /\ posts = {}
  /\ comments = {}
  /\ likes = {}
  /\ nextCommentId = 1
  /\ nextLikeId = 1
  /\ nextPostId = 1
  /\ nextUserId = 3
  /\ reqs = [p \in Procs |-> IdleReq]
  /\ query \in [endpoint : Endpoints, page : QueryInputs, limit : CompanionInputs]
               \cup [endpoint : Endpoints, page : CompanionInputs, limit : QueryInputs]
  /\ pagination = NoPagination
  /\ listed = NoListing
  /\ hist = NoHist

\* the request runs its two statements; other requests may change the rows
\* between them, so the count is any number of rows
NextPage ==
  \/ ListSelect
  \/ \E total \in 0..MaxTotal : ListCount(total)

SpecPage == InitPage /\ [][NextPage]_vars

ListQueryInputs == {Undefined, Given(<<"3">>)}

\* user 2 writes comments and the comments are listed, one request at a time; two
\* inserts may fall into the same second
NextList ==
  \/ \E u \in users, post_id \in {1, 2},
        parent_id \in {Undefined} \cup {Given(i) : i \in 1..MaxComments} :
       /\ listed.pc # "count" /\ u.id = 2
       /\ CreateCommentBegin(1, u, "a", post_id, parent_id) /\ UNCHANGED hist
  \/ CreateCommentSelectPost(1) /\ UNCHANGED hist
  \/ CreateCommentSelectParent(1) /\ UNCHANGED hist
  \/ (\E now \in Clock(comments) : CreateCommentInsert(1, now)) /\ UNCHANGED hist
  \/ CreateCommentRespond(1) /\ UNCHANGED hist
  \/ \E postId \in {1, 4}, page_q \in ListQueryInputs, limit_q \in {Undefined, Given(<<"1">>)} :
       Free(1) /\ ListCommentsSelect(postId, page_q, limit_q) /\ UNCHANGED hist
  \/ ListCommentsCount /\ UNCHANGED hist
  \/ \E commentId \in CommentIdInputs : Free(1) /\ ListReplies(commentId) /\ UNCHANGED hist

SpecList == Init /\ [][NextList]_vars

\* posts are written, read, updated, liked and deleted, one request at a time;
\* user 2 writes drafts, and no post has id 0
NextPosts ==
  \/ \E u \in users, title \in {"", "t"}, st \in {"draft", "archived"} :
       u.id = 2 /\ CreatePostBegin(1, u, title, "c", st) /\ UNCHANGED hist
  \/ CreatePostInsert(1) /\ UNCHANGED hist
  \/ \E id \in {1, 3, 0} : GetPostIncrement(1, id) /\ UNCHANGED hist
  \/ GetPostSelect(1) /\ UNCHANGED hist
  \/ \E u \in users, id \in {1, 3}, content \in {"", "a"}, st \in {"draft", "published", "archived"} :
       UpdatePostBegin(1, u, id, "t", content, st) /\ UNCHANGED hist
  \/ UpdatePostSelect(1) /\ UNCHANGED hist
  \/ UpdatePostUpdate(1) /\ UNCHANGED hist
  \/ \E u \in users, id \in {1, 0}, st \in {"draft", "published", "archived"} :
       UpdatePostStatusBegin(1, u, id, st) /\ UNCHANGED hist
  \/ UpdatePostStatusUpdate(1) /\ UNCHANGED hist
  \/ \E u \in users : u.id = 2 /\ ToggleLikeBegin(1, u, 1) /\ UNCHANGED hist
  \/ ToggleLikeSelect(1) /\ UNCHANGED hist
  \/ ToggleLikeDelete(1) /\ UNCHANGED hist
  \/ ToggleLikeDecrement(1) /\ UNCHANGED hist
  \/ ToggleLikeInsert(1) /\ UNCHANGED hist
  \/ ToggleLikeIncrement(1) /\ UNCHANGED hist
  \/ \E u \in users, id \in {1, 4} : u.id = 2 /\ DeletePostBegin(1, u, id) /\ UNCHANGED hist
  \/ DeletePostSelect(1) /\ UNCHANGED hist
  \/ DeletePostDelete(1) /\ UNCHANGED hist
  \/ \E u \in users, id \in {1, 0} : AdminDeletePostBegin(1, u, id) /\ UNCHANGED hist
  \/ AdminDeletePostDelete(1) /\ UNCHANGED hist

SpecPosts == Init /\ [][NextPosts]_vars

\* a comment is written to post 1 while the post's status is changed, the store
\* statements of the two requests interleaved
NextPublishRace ==
  \/ \E p \in Procs, u \in users, parent_id \in {Undefined, Given(1)} :
       CreateCommentBegin(p, u, "a", 1, parent_id) /\ UNCHANGED hist
  \/ \E p \in Procs : CreateCommentSelectPost(p) /\ UNCHANGED hist
  \/ \E p \in Procs : CreateCommentSelectParent(p) /\ UNCHANGED hist
  \/ \E p \in Procs, now \in Clock(comments) : CreateCommentInsert(p, now) /\ UNCHANGED hist
  \/ \E p \in Procs : CreateCommentRespond(p) /\ UNCHANGED hist
  \/ \E p \in Procs, u \in users, st \in PostStatuses :
       UpdatePostBegin(p, u, 1, "t", "a", st) /\ UNCHANGED hist
  \/ \E p \in Procs : UpdatePostSelect(p) /\ UNCHANGED hist
  \/ \E p \in Procs : UpdatePostUpdate(p) /\ UNCHANGED hist
  \/ \E p \in Procs, u \in users, st \in PostStatuses :
       UpdatePostStatusBegin(p, u, 1, st) /\ UNCHANGED hist
  \/ \E p \in Procs : UpdatePostStatusUpdate(p) /\ UNCHANGED hist

SpecPublishRace == Init /\ [][NextPublishRace]_vars

\* posts, comments and likes are written, posts and users deleted, one request at
\* a time; user 2 writes posts, user 1 comments on post 1 and user 2 on posts 1
\* and 2, each user likes the other user's post and does not take the like back
NextCascade ==
  \/ \E u \in users : u.id = 2 /\ CreatePostBegin(1, u, "t", "c", "published") /\ UNCHANGED hist
  \/ CreatePostInsert(1) /\ UNCHANGED hist
  \/ \E u \in users, post_id \in {1, 2}, parent_id \in {Undefined, Given(1)} :
       /\ u.id = 1 => post_id = 1
       /\ u.id = 2 \/ post_id = 2 => parent_id = Undefined
       /\ CreateCommentBegin(1, u, "a", post_id, parent_id) /\ UNCHANGED hist
  \/ CreateCommentSelectPost(1) /\ UNCHANGED hist
  \/ CreateCommentSelectParent(1) /\ UNCHANGED hist
  \/ (\E now \in Clock(comments) : CreateCommentInsert(1, now)) /\ UNCHANGED hist
  \/ CreateCommentRespond(1) /\ UNCHANGED hist
  \/ \E u \in users, post_id \in {1, 2} :
       /\ u.id # post_id /\ LikesOf(likes, u.id, post_id) = {}
       /\ ToggleLikeBegin(1, u, post_id) /\ UNCHANGED hist
  \/ ToggleLikeSelect(1) /\ UNCHANGED hist
  \/ ToggleLikeInsert(1) /\ UNCHANGED hist
  \/ ToggleLikeIncrement(1) /\ UNCHANGED hist
  \/ \E u \in users, id \in {1, 2, 4} :
       /\ u.id = 1 => id = 2
       /\ DeletePostBegin(1, u, id) /\ UNCHANGED hist
  \/ DeletePostSelect(1) /\ UNCHANGED hist
  \/ DeletePostDelete(1) /\ UNCHANGED hist
  \/ \E u \in users, id \in {1, 2} : DeleteUserBegin(1, u, id) /\ UNCHANGED hist
  \/ DeleteUserDelete(1) /\ UNCHANGED hist
  \/ \E u \in users, id \in {2, 4} : AdminDeletePostBegin(1, u, id) /\ UNCHANGED hist
  \/ AdminDeletePostDelete(1) /\ UNCHANGED hist

SpecCascade == Init /\ [][NextCascade]_vars

\* post 1 has a comment of each user; comment 3 was never written
InitCommented ==
  /\ users = InitUsers
  /\ posts = {NewPost(1, 1, "published"), NewPost(2, 2, "published"), NewPost(3, 2, "draft")}
  /\ comments = {[id |-> 1, content |-> "a", post_id |-> 1, user_id |-> 1, parent_id |-> NULL,
                  created_at |-> 1],
                 [id |-> 2, content |-> "a", post_id |-> 1, user_id |-> 2, parent_id |-> NULL,
                  created_at |-> 2]}
  /\ likes = {}
  /\ nextCommentId = 3
  /\ nextLikeId = 1
  /\ nextPostId = 4
  /\ nextUserId = 3
  /\ reqs = [p \in Procs |-> IdleReq]
  /\ query = NoQuery
  /\ pagination = NoPagination
  /\ listed = NoListing
  /\ hist = NoHist

\* two update or delete requests in flight, their store statements interleaved
NextEditRace ==
  \/ \E p \in Procs, u \in users, id \in 1..3, content \in {"", "b"} :
       UpdateCommentBegin(p, u, id, content) /\ UNCHANGED hist
  \/ \E p \in Procs, u \in users, id \in 1..3 : DeleteCommentBegin(p, u, id) /\ UNCHANGED hist
  \/ \E p \in Procs : UpdateCommentSelect(p) /\ UNCHANGED hist
  \/ \E p \in Procs : UpdateCommentUpdate(p) /\ UNCHANGED hist
  \/ \E p \in Procs : DeleteCommentSelect(p) /\ UNCHANGED hist
  \/ \E p \in Procs : DeleteCommentDelete(p) /\ UNCHANGED hist
  \/ \E p \in Procs, u \in users, id \in 0..3 :
       AdminDeleteCommentBegin(p, u, id) /\ UNCHANGED hist
  \/ \E p \in Procs : AdminDeleteCommentDelete(p) /\ UNCHANGED hist

SpecEditRace == InitCommented /\ [][NextEditRace]_vars

\* the usernames, emails and passwords of the register requests: bob and
\* bob@x.io are taken, al is too short, c is no email address
UsernameInputs == {<<"a", "l">>, <<"b", "o", "b">>, <<"c", "a", "l">>}

EmailInputs == {<<"c">>, <<"b", "o", "b", "@", "x", ".", "i", "o">>,
                <<"c", "@", "x", ".", "i", "o">>}

PasswordInputs == {<<"p", "w">>, <<"s", "e", "c", "r", "e", "t">>}

\* the register requests: cal with c@x.io, and the requests that differ from it
\* in one field
RegisterInputs ==
  LET ok == [username |-> <<"c", "a", "l">>, email |-> <<"c", "@", "x", ".", "i", "o">>,
             password |-> <<"s", "e", "c", "r", "e", "t">>, full_name |-> "C"]
  IN {ok} \cup {[ok EXCEPT !.username = v] : v \in UsernameInputs}
          \cup {[ok EXCEPT !.email = v] : v \in EmailInputs}
          \cup {[ok EXCEPT !.password = v] : v \in PasswordInputs}
          \cup {[ok EXCEPT !.full_name = ""]}

\* two register, role-update or delete-user requests in flight, their store
\* statements interleaved
NextAdminRace ==
  \/ \E p \in Procs, i \in RegisterInputs :
       RegisterBegin(p, i.username, i.email, i.password, i.full_name) /\ UNCHANGED hist
  \/ \E p \in Procs : RegisterSelect(p) /\ UNCHANGED hist
  \/ \E p \in Procs : RegisterInsert(p) /\ UNCHANGED hist
  \/ \E p \in Procs, u \in users, id \in 1..3, role \in {"user", "admin", "owner"} :
       UpdateRoleBegin(p, u, id, role) /\ UNCHANGED hist
  \/ \E p \in Procs : UpdateRoleUpdate(p) /\ UNCHANGED hist
  \/ \E p \in Procs, u \in users, id \in 1..3 : DeleteUserBegin(p, u, id) /\ UNCHANGED hist
  \/ \E p \in Procs : DeleteUserDelete(p) /\ UNCHANGED hist

SpecAdminRace == Init /\ [][NextAdminRace]_vars

\* the same requests, one at a time
NextAdmin ==
  \/ \E i \in RegisterInputs :
       RegisterBegin(1, i.username, i.email, i.password, i.full_name) /\ UNCHANGED hist
  \/ RegisterSelect(1) /\ UNCHANGED hist
  \/ RegisterInsert(1) /\ UNCHANGED hist
  \/ \E u \in users, id \in 1..3, role \in {"user", "admin", "owner"} :
       UpdateRoleBegin(1, u, id, role) /\ UNCHANGED hist
  \/ UpdateRoleUpdate(1) /\ UNCHANGED hist
  \/ \E u \in users, id \in 1..3 : DeleteUserBegin(1, u, id) /\ UNCHANGED hist
  \/ DeleteUserDelete(1) /\ UNCHANGED hist

SpecAdmin == Init /\ [][NextAdmin]_vars

----------------------------------------------------------------------------
(* Properties *)

Done(p, op) == reqs[p].op = op /\ reqs[p].pc = "done"

\* process p takes a step of a request of kind op
StepOf(p, op) == reqs'[p] # reqs[p] /\ reqs'[p].op = op

\* process p's request of kind op responds in this step
Responds(p, op) == StepOf(p, op) /\ reqs'[p].pc = "done"

ParentsExist == \A c \in comments : c.parent_id # NULL => c.parent_id \in CommentIdsOf(comments)

\* C1: under any interleaving of create-comment and delete-comment requests, every
\* comment with a parent references a comment that still exists, and once a
\* delete-comment of C has responded 200 neither C nor a comment whose parent is C
\* is in the store; the admin's delete-comment, which does not look C up, leaves
\* neither C nor a comment whose parent is C in the step in which it responds.
C1_CascadeComplete ==
  /\ [](/\ ParentsExist
        /\ \A p \in Procs :
             Done(p, "deleteComment") /\ reqs[p].status = 200 =>
               \A c \in comments : c.id # reqs[p].id /\ ~Eq(c.parent_id, reqs[p].id))
  /\ [][\A p \in Procs :
          Responds(p, "adminDeleteComment") =>
            /\ reqs'[p].status = 200
            /\ \A c \in comments' : c.id # reqs'[p].id /\ ~Eq(c.parent_id, reqs'[p].id)]_vars

\* C1 witness: a reply was being created while its parent was deleted; the delete
\* responded 200 and the reply's insert was rejected.
C1_Witness ==
  \E p, q \in Procs :
    /\ Done(p, "deleteComment") /\ reqs[p].status = 200
    /\ Done(q, "createComment") /\ reqs[q].status = 500
    /\ reqs[q].parent_id = Given(reqs[p].id)

\* C2: every comment with a parent has its parent in the store, on the same post.
C2_NoCrossPostNesting ==
  \A c \in comments :
    c.parent_id # NULL =>
      \E d \in comments : d.id = c.parent_id /\ d.post_id = c.post_id

\* C2 witness: replies exist, and a reply to a comment of the other post was refused.
C2_Witness ==
  /\ \E c \in comments : c.parent_id # NULL
  /\ Done(1, "createComment") /\ reqs[1].message = "Parent comment not found"
  /\ \E d \in comments : reqs[1].parent_id = Given(d.id) /\ d.post_id # reqs[1].post_id

\* the requester of r is not the author of the comment r addresses, which exists
NotAuthor(r) == \E c \in comments : c.id = r.id /\ c.user_id # r.uid

\* C3 as stated: an update-comment request by a non-author always responds 404.
C3_Original ==
  \A p \in Procs : Done(p, "updateComment") /\ NotAuthor(reqs[p]) => reqs[p].status = 404

\* C3 amended: an update-comment request by a non-author responds 404 when its
\* content is not empty and 400 when it is, never 200, whatever the requester's
\* role, and no step of it changes any comment.
C3_NonAuthorUpdate ==
  [][\A p \in Procs :
       StepOf(p, "updateComment") /\ NotAuthor(reqs'[p]) =>
         /\ comments' = comments
         /\ reqs'[p].pc = "done" =>
              reqs'[p].status = IF reqs'[p].content = "" THEN 400 ELSE 404]_vars

\* C3 witness: the admin's edit of another user's comment was answered 404 and the
\* comment kept its content.
C3_Witness ==
  /\ Done(1, "updateComment") /\ reqs[1].role = "admin" /\ reqs[1].status = 404
  /\ \E c \in comments : c.id = reqs[1].id /\ c.user_id # reqs[1].uid /\ c.content # reqs[1].content

\* the requester of r may delete the comment r addresses
MayDelete(r) == \E c \in comments : c.id = r.id /\ (c.user_id = r.uid \/ r.role = "admin")

\* C4: a step of a delete-comment request removes comments only if the requester is
\* the target's author or an admin; any other requester is answered 404 and no
\* comment is removed.
C4_DeleteAuthorized ==
  [][\A p \in Procs :
       StepOf(p, "deleteComment") =>
         /\ comments' # comments => MayDelete(reqs'[p])
         /\ reqs'[p].pc = "done" /\ ~MayDelete(reqs'[p]) =>
              reqs'[p].status = 404 /\ comments' = comments]_vars

\* C4 witness: a user's delete of the admin's comment was answered 404 and the
\* comment is still there.
C4_Witness ==
  /\ Done(1, "deleteComment") /\ reqs[1].role = "user" /\ reqs[1].status = 404
  /\ \E c \in comments : c.id = reqs[1].id /\ c.user_id # reqs[1].uid

\* the client's last two requests were toggle-like requests of one user for one
\* post that existed, and the second has responded
ToggledTwice ==
  /\ hist.prev.op = "toggleLike" /\ hist.cur.op = "toggleLike"
  /\ hist.prev.uid = hist.cur.uid /\ hist.prev.post_id = hist.cur.post_id
  /\ hist.prev.postExisted
  /\ hist.cur.status # 0

\* C5: two toggle-like requests of one user for one existing post, one after the
\* other, report opposite liked values and leave the Like row of (user, post) and
\* the post's likes counter as they were before the first.
C5_ToggleTwice ==
  ToggledTwice =>
    /\ hist.prev.liked \in {"true", "false"} /\ hist.cur.liked \in {"true", "false"}
    /\ hist.prev.liked # hist.cur.liked
    /\ (LikesOf(likes, hist.cur.uid, hist.cur.post_id) # {}) = hist.prev.hadLike
    /\ LikesCounter(posts, hist.cur.post_id) = hist.prev.likesBefore

\* C5 witness: a user who liked the post toggled twice: unliked, then liked again.
C5_Witness ==
  ToggledTwice /\ hist.prev.hadLike /\ hist.prev.liked = "false" /\ hist.cur.liked = "true"

LikeRows(post_id) == {l \in likes : l.post_id = post_id}

\* C6 as stated: whenever no request is in progress, each post's likes counter
\* equals the number of Like rows of that post.
C6_CounterMatchesRows ==
  (\A p \in Procs : Free(p)) =>
    \A q \in posts : q.likes = Cardinality(LikeRows(q.id))

UniqueLikes ==
  \A l1, l2 \in likes : l1.user_id = l2.user_id /\ l1.post_id = l2.post_id => l1 = l2

\* C7: there is at most one Like row per (user, post), also when two toggle-like
\* requests of one user for one post both saw no like: the insert of the second is
\* rejected, that request responds 500 and the rows stay as they are.
C7_UniqueLike ==
  /\ []UniqueLikes
  /\ [][\A p \in Procs :
          /\ StepOf(p, "toggleLike") /\ reqs[p].pc = "insertLike"
          /\ LikesOf(likes, reqs[p].uid, reqs[p].post_id) # {}
          => reqs'[p].pc = "done" /\ reqs'[p].status = 500 /\ likes' = likes]_vars

\* C7 witness: of two interleaved likes of one user for one post, one responded
\* liked: true and the other 500.
C7_Witness ==
  \E p, q \in Procs :
    /\ Done(p, "toggleLike") /\ reqs[p].status = 200 /\ reqs[p].liked = "true"
    /\ Done(q, "toggleLike") /\ reqs[q].status = 500
    /\ reqs[p].uid = reqs[q].uid /\ reqs[p].post_id = reqs[q].post_id
    /\ Cardinality(LikesOf(likes, reqs[p].uid, reqs[p].post_id)) = 1

\* the requester of r addresses a post that is not there or not published, or gives
\* a parent id that no comment of the addressed post has
Rejectable(r) ==
  \/ PublishedPosts(posts, r.post_id) = {}
  \/ r.parent_id # Undefined /\ ParentComments(comments, r.parent_id[1], r.post_id) = {}

\* C8 as stated, for requests that pass validation: a create-comment request whose
\* post does not exist or is a draft, or whose given parent id names no comment of
\* the post, responds 404, and no step of it changes the comments.
C8_Original ==
  [][\A p \in Procs :
       StepOf(p, "createComment") /\ reqs'[p].content # "" /\ Rejectable(reqs'[p]) =>
         /\ comments' = comments
         /\ reqs'[p].pc = "done" => reqs'[p].status = 404]_vars

\* s is the decimal numeral of a natural number
IsNumeral(s) == s # << >> /\ \A i \in 1..Len(s) : IsDigit(s[i])

\* the list request in query has responded, and it gave page and limit as the
\* numerals of integers >= 1
ListedWithPositive ==
  /\ pagination.status # 0
  /\ query.page # Undefined /\ IsNumeral(query.page[1]) /\ DecimalValue(query.page[1]) >= 1
  /\ query.limit # Undefined /\ IsNumeral(query.limit[1]) /\ DecimalValue(query.limit[1]) >= 1

\* C9: for page >= 1, limit >= 1 and total >= 0 every list endpoint responds with
\* current = page, total pages = ceiling(total / limit), hasNext = (page * limit <
\* total), hasPrev = (page > 1), offset (page - 1) * limit; hasNext holds exactly
\* when page < total pages; total 25, limit 10 gives 3 pages, page 1 with hasNext
\* and no hasPrev, page 3 with hasPrev and no hasNext.
C9_PaginationMath ==
  ListedWithPositive =>
    LET page == DecimalValue(query.page[1])
        limit == DecimalValue(query.limit[1])
        total == pagination.count
        pg == pagination.pagination
    IN /\ pagination.status = 200
       /\ pg.current = page
       /\ pg.total * limit >= total /\ (pg.total - 1) * limit < total
       /\ pg.hasNext = (page * limit < total)
       /\ pg.hasPrev = (page > 1)
       /\ pagination.offset = (page - 1) * limit
       /\ pg.hasNext = (page < pg.total)
       /\ total = 25 /\ limit = 10 => pg.total = 3
       /\ total = 25 /\ limit = 10 /\ page = 1 => pg.hasNext /\ ~pg.hasPrev
       /\ total = 25 /\ limit = 10 /\ page = 3 => ~pg.hasNext /\ pg.hasPrev

\* C9 witness: page 3 of 25 rows, 10 to a page.
C9_Witness ==
  /\ pagination.status = 200 /\ pagination.count = 25
  /\ query.page = Given(<<"3">>) /\ query.limit = Given(<<"1", "0">>)
  /\ pagination.offset = 20
  /\ pagination.pagination = [current |-> 3, total |-> 3, hasNext |-> FALSE, hasPrev |-> TRUE]

\* the parameter f is missing or is not the numeral of an integer
NonNumeric(f) ==
  \/ f = Undefined
  \/ ~IsNumeral(f[1]) /\ ~(f[1] # << >> /\ Head(f[1]) = "-" /\ IsNumeral(Tail(f[1])))

\* the number of white space characters s begins with
LeadingSpaces(s) ==
  CHOOSE k \in 0..Len(s) :
    /\ \A i \in 1..k : IsWhiteSpace(s[i])
    /\ k < Len(s) => ~IsWhiteSpace(s[k + 1])

\* where the numeral of s would begin: after the leading white space and one sign
NumeralStart(s) ==
  LET k == LeadingSpaces(s)
  IN IF k < Len(s) /\ s[k + 1] \in {"+", "-"} THEN k + 2 ELSE k + 1

\* s has the hexadecimal prefix at position b
HasHexPrefix(s, b) == b + 1 <= Len(s) /\ s[b] = "0" /\ s[b + 1] \in {"x", "X"}

\* the parameter f is missing or, after any leading white space, does not begin
\* with an integer numeral: an optional sign, then decimal digits, or hexadecimal
\* digits after a 0x or 0X prefix
LacksLeadingInteger(f) ==
  \/ f = Undefined
  \/ LET s == f[1]
         b == NumeralStart(s)
     IN IF HasHexPrefix(s, b)
        THEN b + 2 > Len(s) \/ ~IsRadixDigit(s[b + 2], 16)
        ELSE b > Len(s) \/ ~IsDigit(s[b])

\* the integer of the numeral the value s begins with
LeadingInteger(s) ==
  LET b == NumeralStart(s)
      R == IF HasHexPrefix(s, b) THEN 16 ELSE 10
      first == IF R = 16 THEN b + 2 ELSE b
      last == CHOOSE e \in first..Len(s) :
                /\ \A i \in first..e : IsRadixDigit(s[i], R)
                /\ e < Len(s) => ~IsRadixDigit(s[e + 1], R)
      n == RadixValue(SubSeq(s, first, last), R)
  IN IF b - 1 > LeadingSpaces(s) /\ s[b - 1] = "-" THEN 0 - n ELSE n

\* C10 as stated: a missing or non-numeric page or limit falls back to the default
\* (page 1, limit 20 for the comments of a post and 10 for those of a user), and
\* the request does not fail.
C10_Original ==
  pagination.status # 0 =>
    /\ NonNumeric(query.page) => pagination.page = 1
    /\ NonNumeric(query.limit) =>
         pagination.limit = (IF query.endpoint = "postComments" THEN 20 ELSE 10)
    /\ NonNumeric(query.page) /\ NonNumeric(query.limit) => pagination.status = 200

\* C10 amended: a page or limit that is missing or, after any leading white
\* space, does not begin with an integer numeral (an optional sign, then decimal
\* digits, or hexadecimal digits after a 0x or 0X prefix) falls back to the default
\* (page 1, limit 20 for the comments of a post and 10 for those of a user), and
\* the request does not fail; a value that begins with such a numeral is parsed
\* as that integer, which is used instead of the default unless it is 0.
C10_DefaultsWithoutLeadingInteger ==
  pagination.status # 0 =>
    /\ LacksLeadingInteger(query.page) => pagination.page = 1
    /\ LacksLeadingInteger(query.limit) =>
         pagination.limit = (IF query.endpoint = "postComments" THEN 20 ELSE 10)
    /\ LacksLeadingInteger(query.page) /\ LacksLeadingInteger(query.limit) =>
         pagination.status = 200
    /\ ~LacksLeadingInteger(query.page) /\ LeadingInteger(query.page[1]) # 0 =>
         pagination.page = LeadingInteger(query.page[1])
    /\ ~LacksLeadingInteger(query.limit) /\ LeadingInteger(query.limit[1]) # 0 =>
         pagination.limit = LeadingInteger(query.limit[1])

\* C10 witness: the comments of a user listed with page=a- and no limit.
C10_Witness ==
  /\ query.endpoint = "userComments"
  /\ query.page = Given(<<"a", "-">>) /\ query.limit = Undefined
  /\ pagination.status = 200 /\ pagination.page = 1 /\ pagination.limit = 10
  /\ pagination.offset = 0

\* s is the numeral of an integer: an optional minus sign, then digits only
IsIntegerNumeral(s) ==
  IsNumeral(s) \/ (s # << >> /\ Head(s) = "-" /\ IsNumeral(Tail(s)))

IntegerValue(s) ==
  IF Head(s) = "-" THEN 0 - DecimalValue(Tail(s)) ELSE DecimalValue(s)

\* C11 as stated: a list request that gives page and limit as integers, page 0 and
\* negative values included, is answered with those values used as given: offset
\* (page - 1) * limit and the pagination metadata computed from them.
C11_Original ==
  /\ pagination.status # 0
  /\ query.page # Undefined /\ IsIntegerNumeral(query.page[1])
  /\ query.limit # Undefined /\ IsIntegerNumeral(query.limit[1])
  => LET page == IntegerValue(query.page[1])
         limit == IntegerValue(query.limit[1])
     IN /\ pagination.page = page
        /\ pagination.limit = limit
        /\ pagination.offset = (page - 1) * limit
        /\ pagination.status = 200
        /\ pagination.pagination.current = page
        /\ pagination.pagination.hasNext = (page * limit < pagination.count)
        /\ pagination.pagination.hasPrev = (page > 1)

\* the comments of post postId that have no parent
TopLevelOf(postId) == {c \in comments : c.post_id = postId /\ c.parent_id = NULL}

\* the list request has just selected its rows
RowsSelected(op) == listed' # listed /\ listed'.op = op /\ listed'.pc # "idle" /\ listed.pc # "count"

\* C12: the rows selected by a list-top-level-comments request with valid page and
\* limit are comments of that post without a parent, each once, newest first, the
\* min(limit, total - offset) rows that follow the first offset ones in that order,
\* each with replies_count the number of comments whose parent it is in the state
\* of the query; for a post id that does not exist the rows are the empty sequence
\* and the request is never answered 404.
C12_TopLevelListing ==
  [][/\ RowsSelected("listComments") =>
          LET l == listed'
              T == TopLevelOf(l.id)
              n == Len(l.rows)
          IN /\ l.pc = "count"
             /\ n = Min(l.limit, IF Cardinality(T) > l.offset THEN Cardinality(T) - l.offset ELSE 0)
             /\ \A i \in 1..n :
                  /\ \E c \in T :
                       /\ c.id = l.rows[i].id /\ c.content = l.rows[i].content
                       /\ c.user_id = l.rows[i].user_id
                       /\ l.rows[i].post_id = l.id /\ l.rows[i].parent_id = NULL
                  /\ l.rows[i].replies_count =
                       Cardinality({c \in comments : c.parent_id = l.rows[i].id})
                  /\ Cardinality({c \in T : c.created_at > l.rows[i].created_at}) <= l.offset + i - 1
                  /\ Cardinality({c \in T : c.created_at >= l.rows[i].created_at}) >= l.offset + i
             /\ \A i, j \in 1..n :
                  /\ i # j => l.rows[i].id # l.rows[j].id
                  /\ i < j => l.rows[i].created_at >= l.rows[j].created_at
             /\ l.id \notin PostIdsOf(posts) => l.rows = << >>
     /\ listed'.op = "listComments" /\ listed'.pc = "done" => listed'.status = 200]_vars

\* C12 witness: the listing of a post answered with its two top-level comments, one
\* of them with a reply, while the other post has a comment too.
C12_Witness ==
  /\ listed.op = "listComments" /\ listed.pc = "done" /\ listed.status = 200
  /\ Len(listed.rows) = 2
  /\ \E i \in 1..2 : listed.rows[i].replies_count = 1
  /\ \E c \in comments : c.post_id = listed.id /\ c.parent_id # NULL

\* C13: the rows of a list-replies request are exactly the comments whose parent is
\* the addressed comment, each once and all of them, oldest first, and as many as
\* the replies_count the top-level listing reports for that comment in that state.
C13_RepliesListing ==
  [][RowsSelected("listReplies") =>
       LET l == listed'
           R == {c \in comments : Eq(c.parent_id, l.id)}
       IN /\ l.pc = "done" /\ l.status = 200
          /\ {l.rows[i] : i \in 1..Len(l.rows)} = R
          /\ Len(l.rows) = Cardinality(R)
          /\ \A i, j \in 1..Len(l.rows) : i < j => l.rows[i].created_at <= l.rows[j].created_at
          /\ \A postId \in PostIdsOf(posts) : \A row \in TopLevelRows(users, comments, postId) :
               row.id = l.id => row.replies_count = Len(l.rows)]_vars

\* C13 witness: the replies of a comment that has a reply, which itself has a reply,
\* listed as the one direct reply.
C13_Witness ==
  /\ listed.op = "listReplies" /\ listed.pc = "done" /\ Len(listed.rows) = 1
  /\ \E c \in comments : c.parent_id = listed.rows[1].id
  /\ \E c \in comments : c.id = listed.id /\ c.parent_id = NULL

\* the views counter of post id in ps
ViewsOf(ps, id) == (CHOOSE q \in ps : q.id = id).views

\* C14: the step that accepts a single-post fetch, whoever sends it and whatever the
\* post's status, adds exactly one to the views counter of that post and leaves the
\* counters of the other posts alone, each time it is repeated; no step of any
\* request makes the views counter of a post smaller.
C14_ViewsMonotonic ==
  [][/\ \A p \in Procs :
          StepOf(p, "getPost") /\ reqs'[p].pc = "selectPost" =>
            /\ PostIdsOf(posts') = PostIdsOf(posts)
            /\ \A id \in PostIdsOf(posts) :
                 ViewsOf(posts', id) = ViewsOf(posts, id) + (IF id = reqs'[p].id THEN 1 ELSE 0)
     /\ \A id \in PostIdsOf(posts) \cap PostIdsOf(posts') :
          ViewsOf(posts', id) >= ViewsOf(posts, id)]_vars

\* C14 witness: the draft was fetched twice and answered 404, and counts two views,
\* after its status was written by an update.
C14_Witness ==
  /\ Done(1, "getPost") /\ reqs[1].id = 3 /\ reqs[1].status = 404
  /\ 3 \in PostIdsOf(posts) /\ ViewsOf(posts, 3) = 2
  /\ \E q \in posts : q.id = 1 /\ q.views = 1 /\ q.likes = 1 /\ q.status = "draft"

\* the requester of r is the author of the post r addresses, or an admin
MayDeletePost(r) == \E q \in posts : q.id = r.id /\ (q.author_id = r.uid \/ r.role = "admin")

\* C15: a delete-post request by the post's author or by an admin responds 200 and
\* the step that does so removes the post, every comment of the post and every Like
\* row of the post; a delete-post request by anyone else responds 404, and no step
\* of it changes the posts, the comments or the likes. The admin's delete-post is
\* a request of an admin and responds 200 with the same removal.
C15_DeletePostCascade ==
  [][\A p \in Procs :
       LET r == reqs'[p] IN
       /\ StepOf(p, "deletePost") =>
            /\ r.pc = "done" /\ MayDeletePost(r) =>
                 /\ r.status = 200
                 /\ r.id \notin PostIdsOf(posts')
                 /\ \A c \in comments' : c.post_id # r.id
                 /\ \A l \in likes' : l.post_id # r.id
            /\ r.pc = "done" /\ ~MayDeletePost(r) => r.status = 404
            /\ ~(r.pc = "done" /\ MayDeletePost(r)) =>
                 posts' = posts /\ comments' = comments /\ likes' = likes
       /\ StepOf(p, "adminDeletePost") =>
            /\ r.role = "admin"
            /\ r.pc = "done" =>
                 /\ r.status = 200
                 /\ r.id \notin PostIdsOf(posts')
                 /\ \A c \in comments' : c.post_id # r.id
                 /\ \A l \in likes' : l.post_id # r.id
            /\ r.pc # "done" =>
                 posts' = posts /\ comments' = comments /\ likes' = likes]_vars

\* C15 witness: user 2, who is no admin, deleted the own post 2, on which there were
\* a comment and a like; the comment on post 1 is still there.
C15_Witness ==
  /\ Done(1, "deletePost") /\ reqs[1].status = 200 /\ reqs[1].role = "user" /\ reqs[1].id = 2
  /\ nextCommentId = 3 /\ nextLikeId = 2
  /\ Cardinality(comments) = 1 /\ likes = {}
  /\ \A q \in posts : q.likes = 0

\* C16: once an admin's delete-user request has responded 200, the user is gone with
\* every post, comment and Like row of that user, every remaining comment is on a
\* remaining post and has no parent or a remaining one, and every remaining Like
\* row is of a remaining post and a remaining user.
C16_DeleteUserCascade ==
  \A p \in Procs :
    Done(p, "deleteUser") /\ reqs[p].status = 200 =>
      /\ reqs[p].id \notin UserIdsOf(users)
      /\ \A q \in posts : q.author_id # reqs[p].id
      /\ \A c \in comments :
           /\ c.user_id # reqs[p].id
           /\ c.post_id \in PostIdsOf(posts)
           /\ c.parent_id = NULL \/ c.parent_id \in CommentIdsOf(comments)
      /\ \A l \in likes :
           /\ l.user_id # reqs[p].id
           /\ l.post_id \in PostIdsOf(posts) /\ l.user_id \in UserIdsOf(users)

\* C16 witness: user 2 was deleted after three comments and two likes were written;
\* of all that, one comment of the admin on the admin's post remains.
C16_Witness ==
  /\ Done(1, "deleteUser") /\ reqs[1].status = 200 /\ reqs[1].id = 2
  /\ nextCommentId = 4 /\ nextLikeId = 3
  /\ Cardinality(comments) = 1 /\ likes = {} /\ PostIdsOf(posts) = {1}

\* C17: a create-comment or update-comment request with empty content (a missing
\* content is validated as the empty string) is answered 400 in the step that
\* accepts it, before any statement of the handler reaches the store, and the
\* store is left as it was.
C17_EmptyContentRejected ==
  [][\A p \in Procs :
       /\ StepOf(p, "createComment") \/ StepOf(p, "updateComment")
       /\ reqs'[p].content = ""
       => /\ Free(p)
          /\ reqs'[p].pc = "done" /\ reqs'[p].status = 400
          /\ comments' = comments /\ posts' = posts /\ users' = users /\ likes' = likes
          /\ nextCommentId' = nextCommentId]_vars

\* C17 witness: the author's update of an own comment with empty content was
\* answered 400 and the comment kept its content.
C17_Witness ==
  /\ Done(1, "updateComment") /\ reqs[1].content = "" /\ reqs[1].status = 400
  /\ \E c \in comments : c.id = reqs[1].id /\ c.user_id = reqs[1].uid /\ c.content = "a"

\* the request r is an update or a delete of a comment
EditsComment(r) == r.op \in {"updateComment", "deleteComment"}

\* the requester of r has no rights on the comment r addresses, which exists
LacksRights(r) ==
  \E c \in comments :
    c.id = r.id /\ c.user_id # r.uid /\ ~(r.op = "deleteComment" /\ r.role = "admin")

\* every refusal of an update, and every refusal of a delete, is the same response
RefusalsAlike ==
  \A p, q \in Procs :
    /\ Done(p, reqs[q].op) /\ Done(q, reqs[p].op) /\ EditsComment(reqs[p])
    /\ reqs[p].status = 404 /\ reqs[q].status # 200 /\ reqs[q].content = reqs[p].content
    => reqs[q].status = reqs[p].status /\ reqs[q].message = reqs[p].message

\* C18: an update-comment or delete-comment request that reaches the rights check is
\* answered 404 with one and the same message when the comment does not exist and
\* when it exists but the requester has no rights on it; a request refused before
\* that check (empty content) is answered without the comment being looked at, so
\* no response tells whether the comment exists.
C18_DeniedAsNotFound ==
  /\ []RefusalsAlike
  /\ [][\A p \in Procs :
          StepOf(p, reqs'[p].op) /\ EditsComment(reqs'[p]) /\ reqs'[p].pc = "done" =>
            /\ Free(p) => reqs'[p].status = 400 /\ reqs'[p].message = "errors"
            /\ reqs[p].pc \in {"selectOwned", "selectAllowed"} =>
                 /\ reqs'[p].id \notin CommentIdsOf(comments) \/ LacksRights(reqs'[p])
                 /\ reqs'[p].status = 404
                 /\ reqs'[p].message = "Comment not found or access denied"]_vars

\* C18 witness: two requests of the same kind were refused, one for comment 3, which
\* never existed, one for a comment of the other user, which is still there.
C18_Witness ==
  \E p, q \in Procs :
    /\ Done(p, reqs[q].op) /\ Done(q, reqs[p].op) /\ EditsComment(reqs[p])
    /\ reqs[p].id = 3 /\ reqs[p].status = 404
    /\ \E c \in comments : c.id = reqs[q].id /\ c.user_id # reqs[q].uid
    /\ reqs[q].role = "user" /\ reqs[q].status = 404
    /\ reqs[q].message = reqs[p].message

\* C19 as stated: every step that inserts a comment does so while the comment's post
\* exists and is published, also when the post's status is changed by another
\* request between the published check and the insert.
C19_InsertOnlyWhilePublished ==
  [][\A c \in comments' \ comments : PublishedPosts(posts, c.post_id) # {}]_vars

\* a step of a delete-comment request, the admin's included, removes comments
DeletesComments(p) ==
  /\ StepOf(p, "deleteComment") \/ StepOf(p, "adminDeleteComment")
  /\ comments' # comments

\* the comment c of cs is below the comment id: its parent is id, or is below id
RECURSIVE IsBelow(_, _, _)
IsBelow(cs, c, id) ==
  /\ c.parent_id # NULL
  /\ c.parent_id = id \/ \E d \in cs : d.id = c.parent_id /\ IsBelow(cs, d, id)

\* C20 as stated: a successful delete-comment of C removes exactly C and the
\* comments whose parent is C; every other comment, a reply to a reply of C
\* included, stays in the store unchanged.
C20_Original ==
  [][\A p \in Procs :
       DeletesComments(p) =>
         comments' = {c \in comments : c.id # reqs'[p].id /\ ~Eq(c.parent_id, reqs'[p].id)}]_vars

\* C20 amended: a successful delete-comment of C removes exactly C and the comments
\* below C at every depth (the replies to C, the replies to those, and so on);
\* every other comment, C's own parent and the comments of other posts included,
\* stays in the store unchanged.
C20_DeleteRemovesSubtree ==
  [][\A p \in Procs :
       DeletesComments(p) =>
         /\ reqs'[p].pc = "done" /\ reqs'[p].status = 200
         /\ comments' = {c \in comments : c.id # reqs'[p].id /\ ~IsBelow(comments, c, reqs'[p].id)}]_vars

\* C20 witness: comment 2, a reply to comment 1 with a reply of its own, was
\* deleted; of the three comments written, comment 1 alone is left.
C20_Witness ==
  /\ Done(1, "deleteComment") /\ reqs[1].status = 200 /\ reqs[1].id = 2
  /\ nextCommentId = 4
  /\ CommentIdsOf(comments) = {1}

\* the comments that are replies to a reply
RepliesToReplies ==
  {c \in comments : \E d \in comments : d.id = c.parent_id /\ d.parent_id # NULL}

\* the request r gives as parent a reply on the post it addresses, which is published
RepliesToReply(r) ==
  /\ r.parent_id # Undefined /\ PublishedPosts(posts, r.post_id) # {}
  /\ \E d \in comments : d.id = r.parent_id[1] /\ d.post_id = r.post_id /\ d.parent_id # NULL

\* C21: a create-comment request whose parent is a reply on the same published post
\* is answered 201 and its comment is stored with that reply as parent; a reply to a
\* reply is never among the rows of a top-level listing, and it is among the rows
\* of a list-replies request exactly when the request names its direct parent (so
\* never for the top-level ancestor).
C21_ReplyToReply ==
  [][/\ \A p \in Procs :
          /\ StepOf(p, "createComment") /\ reqs'[p].pc = "done" /\ RepliesToReply(reqs'[p])
          => /\ reqs'[p].status = 201
             /\ \E c \in comments' :
                  /\ c.id = reqs'[p].id /\ c.post_id = reqs'[p].post_id
                  /\ c.parent_id = reqs'[p].parent_id[1]
     /\ RowsSelected("listComments") =>
          \A i \in 1..Len(listed'.rows) : \A c \in RepliesToReplies : listed'.rows[i].id # c.id
     /\ RowsSelected("listReplies") =>
          \A c \in RepliesToReplies :
            (\E i \in 1..Len(listed'.rows) : listed'.rows[i].id = c.id) = Eq(c.parent_id, listed'.id)]_vars

\* C21 witness: comment 3 is a reply to comment 2, itself a reply to comment 1, and
\* the replies of comment 2 were listed as comment 3.
C21_Witness ==
  /\ listed.op = "listReplies" /\ listed.pc = "done" /\ listed.id = 2
  /\ Len(listed.rows) = 1 /\ listed.rows[1].id = 3
  /\ \E c \in comments : c.id = 3 /\ c.parent_id = 2
  /\ \E c \in comments : c.id = 2 /\ c.parent_id = 1
  /\ Done(1, "createComment") /\ reqs[1].status = 201 /\ reqs[1].id = 3

\* the update step of process p's update-comment request
UpdateStep(p) == StepOf(p, "updateComment") /\ reqs[p].pc = "update"

\* C22: under every interleaving of update-comment and delete-comment requests, a
\* comment that stays in the store changes only in the update step of an
\* update-comment request of its author that addresses it, and then only in its
\* content; such a step adds and removes no comment and changes no other comment.
C22_ContentOnlyByAuthor ==
  [][/\ \A c \in comments : \A d \in comments' :
          c.id = d.id /\ c # d =>
            \E p \in Procs :
              /\ UpdateStep(p) /\ reqs'[p].id = c.id /\ reqs'[p].uid = c.user_id
              /\ d = [c EXCEPT !.content = reqs'[p].content]
     /\ \A p \in Procs :
          UpdateStep(p) => CommentIdsOf(comments') = CommentIdsOf(comments)]_vars

\* C22 witness: user 2 edited the own comment 2, while comment 1 was refused to
\* user 2 and kept its content.
C22_Witness ==
  \E p, q \in Procs :
    /\ Done(p, "updateComment") /\ reqs[p].status = 200 /\ reqs[p].uid = 2 /\ reqs[p].id = 2
    /\ Done(q, "updateComment") /\ reqs[q].status = 404 /\ reqs[q].uid = 2 /\ reqs[q].id = 1
    /\ \E c \in comments : c.id = 2 /\ c.content = "b" /\ c.user_id = 2
    /\ \E c \in comments : c.id = 1 /\ c.content = "a"

\* C23 as stated: the update step of an update-comment request, after which the
\* request responds 200, leaves the addressed comment in the store with the new
\* content, also when the comment was deleted after the ownership check.
C23_UpdatedCommentExists ==
  [][\A p \in Procs :
       UpdateStep(p) /\ reqs'[p].status = 200 =>
         \E c \in comments' : c.id = reqs'[p].id /\ c.content = reqs'[p].content]_vars

\* C24: no step of a toggle-like request for a post id that does not exist changes
\* the Like rows or any post, and the request is answered 500.
C24_LikeOfMissingPost ==
  [][\A p \in Procs :
       StepOf(p, "toggleLike") /\ reqs'[p].post_id \notin PostIdsOf(posts) =>
         /\ likes' = likes /\ posts' = posts
         /\ reqs'[p].pc = "done" => reqs'[p].status = 500]_vars

\* C24 witness: a like of post 4, which never existed, was answered 500 while
\* another post has a like.
C24_Witness ==
  /\ Done(1, "toggleLike") /\ reqs[1].post_id = 4 /\ reqs[1].status = 500
  /\ likes # {} /\ \E q \in posts : q.likes = 1

\* C25 as stated: every reachable state has a user with role admin, also when
\* role-update and delete-user requests of two admins that target each other
\* interleave.
C25_AdminExists == \E u \in users : u.role = "admin"

\* C26 as stated: the likes counter of every post is >= 0 in every reachable state,
\* also when two toggle-like requests of one user for one liked post both see the
\* Like row before either deletes it.
C26_LikesNonNegative == \A q \in posts : q.likes >= 0

====
